---- MODULE Spec2Model ----
(***************************************************************************)
(* A model of the renderer of vue3-source-learning: the job scheduler      *)
(* (component/queueJob.js), the tree patcher (renderer/patch.js) and the   *)
(* keyed-list reconciler (renderer/quickDiff.js).                          *)
(***************************************************************************)
EXTENDS Integers, Sequences, FiniteSets, TLC

(***************************************************************************)
(* Bounds of the model.                                                    *)
(***************************************************************************)
\* number of distinct job references the scheduler is driven with
NumJobs == 3
\* number of queueJob calls made from synchronous turns in one behaviour
MaxCalls == 4
\* number of flushes followed in one behaviour
MaxFlushes == 2

Jobs == 1..NumJobs

VARIABLES
  \* ---- scheduler state (queueJob.js) ----
  queue,        \* the Set `queue`, as the sequence of its members in insertion order
  isFlushing,   \* the flag `isFlushing`
  scheduled,    \* number of flush callbacks registered with p.then and not finished
  cursor,       \* 0: no flush running; k > 0: forEach is about to visit queue[k]
  \* ---- scheduler history (observation only) ----
  asked,        \* jobs passed to queueJob from synchronous turns since the last flush ended
  execLog,      \* jobs executed by the flush in progress, in order
  begun,        \* `asked` as it stood when the flush in progress began
  lastAsked,    \* `asked` as it stood when the last finished flush began
  lastBatch,    \* the queue as it stood when the last finished flush reached finally
  lastExec,     \* `execLog` of the last finished flush
  lastThrew,    \* 0, or the position in lastBatch of the job that threw
  nCalls,       \* queueJob calls made from synchronous turns so far
  nFlushes,     \* flushes finished so far
  owed          \* the jobs passed to queueJob (from a turn or from a running job)
                \* and not started since

schedVars == <<queue, isFlushing, scheduled, cursor, asked, execLog, begun, lastAsked,
               lastBatch, lastExec, lastThrew, nCalls, nFlushes, owed>>

VARIABLES
  \* ---- renderer state (renderer.js, patch.js, quickDiff.js) ----
  dom,          \* the platform tree: dom[h] is the node with handle h
  rootVNode,    \* container._vnode of the root container
  strict,       \* whether the build runs the code as strict-mode (ES module) code
  \* ---- renderer history (observation only) ----
  phase,        \* "init", "mounted" (first render over), "patched" (second render over)
  ops,          \* the platform primitives called by the last render, in order
  err,          \* "" or the exception the last render threw
  prevDom,      \* dom as it stood before the last render
  prevVNode,    \* container._vnode as it stood before the last render
  branch,       \* the branch the last patchKeyedChildren of the last render took
  lastVNode     \* the vnode passed to the last render, as the render left it

rendVars == <<dom, rootVNode, strict, phase, ops, err, prevDom, prevVNode, branch,
              lastVNode>>

VARIABLES
  \* ---- component state (quickDiff.js 236-506, keepalive.js) ----
  insts,           \* the component instances created so far: insts[c] has handle c
  currentInstance, \* the slot `currentInstance`: 0 (null) or an instance handle
  slot,            \* the component type the default slot of KeepAlive returns now
  nativeConst,     \* whether the build runs const natively (temporal dead zone,
                   \* no assignment to a const) or lowers it to var
  \* ---- component history (observation only) ----
  events,          \* lifecycle events, setup calls, props writes, jobs queued and
                   \* diagnostics since construction, in order
  prevEvents,      \* events as it stood before the last step
  prevInsts,       \* insts as it stood before the last step
  nSteps,          \* steps taken since construction
  nRenders         \* calls render(vnode, container) with a vnode so far

compVars == <<insts, currentInstance, slot, nativeConst, events, prevEvents, prevInsts,
              nSteps, nRenders>>

VARIABLES
  \* ---- a pure function applied to an argument (observation only) ----
  fnArg,        \* the argument
  fnRes         \* [done, val]: whether the function was called, and its result

funVars == <<fnArg, fnRes>>

vars == <<schedVars, rendVars, compVars, funVars>>

(***************************************************************************)
(* Helpers on sequences.                                                   *)
(***************************************************************************)
Range(s) == {s[i] : i \in 1..Len(s)}

Count(x, s) == Cardinality({i \in 1..Len(s) : s[i] = x})

\* Set.prototype.add: a member keeps its place, a new value goes last.
SetAdd(q, job) == IF job \in Range(q) THEN q ELSE Append(q, job)

(***************************************************************************)
(* queueJob(job), queueJob.js 34-53, as a function of the scheduler state. *)
(* The state is the record [queue, isFlushing, scheduled].                 *)
(***************************************************************************)
\* A queueJob that registers a flush callback on every call.
queueJobAlwaysSchedules(s, job) ==
  [queue      |-> SetAdd(s.queue, job),
   isFlushing |-> TRUE,
   scheduled  |-> s.scheduled + 1]

queueJob(s, job) ==
  [queue      |-> SetAdd(s.queue, job),
   isFlushing |-> TRUE,
   scheduled  |-> IF s.isFlushing THEN s.scheduled ELSE s.scheduled + 1]

\* A flush that forgets the reset when a job throws (try without finally).
flushFinallyOnlyOnSuccess(s, threw) ==
  IF threw THEN [queue |-> s.queue, isFlushing |-> s.isFlushing, scheduled |-> s.scheduled - 1]
  ELSE [queue |-> <<>>, isFlushing |-> FALSE, scheduled |-> s.scheduled - 1]

\* The finally block of the flush callback, queueJob.js 46-50; the callback
\* is over after it, whether forEach returned or a job threw.
flushFinally(s, threw) ==
  [queue |-> <<>>, isFlushing |-> FALSE, scheduled |-> s.scheduled - 1]

SchedState == [queue |-> queue, isFlushing |-> isFlushing, scheduled |-> scheduled]

(***************************************************************************)
(* A synchronous turn calls queueJob(job).  JavaScript runs one callback   *)
(* at a time, so this cannot happen while the flush callback runs.         *)
(***************************************************************************)
QueueJob(job) ==
  /\ cursor = 0
  /\ nCalls < MaxCalls
  /\ nFlushes < MaxFlushes
  /\ LET s == queueJob(SchedState, job) IN
       /\ queue' = s.queue
       /\ isFlushing' = s.isFlushing
       /\ scheduled' = s.scheduled
  /\ asked' = Append(asked, job)
  /\ nCalls' = nCalls + 1
  /\ owed' = owed \cup {job}
  /\ UNCHANGED <<cursor, execLog, begun, lastAsked, lastBatch, lastExec, lastThrew,
                 nFlushes, rendVars, compVars, funVars>>

(***************************************************************************)
(* One visit of queue.forEach(job => job()) in the flush callback,         *)
(* queueJob.js 42-51.  The visited job either returns or throws; while it  *)
(* runs it may itself call queueJob(nested) (nested = 0: it does not).     *)
(* forEach visits members added during the iteration.  When the visited    *)
(* job throws, or was the last member, the finally block runs in the same  *)
(* step.                                                                   *)
(***************************************************************************)
FlushStep(nested, throws) ==
  /\ scheduled > 0
  /\ LET pos   == IF cursor = 0 THEN 1 ELSE cursor
         job   == queue[pos]
         s1    == IF nested = 0 THEN SchedState ELSE queueJob(SchedState, nested)
         log   == Append(IF cursor = 0 THEN <<>> ELSE execLog, job)
         first == IF cursor = 0 THEN asked ELSE begun
         over  == throws \/ pos = Len(s1.queue)
         s2    == IF over THEN flushFinally(s1, throws) ELSE s1
     IN
       /\ pos <= Len(queue)
       /\ queue' = s2.queue
       /\ isFlushing' = s2.isFlushing
       /\ scheduled' = s2.scheduled
       /\ cursor' = IF over THEN 0 ELSE pos + 1
       /\ execLog' = IF over THEN <<>> ELSE log
       /\ begun' = IF over THEN <<>> ELSE first
       /\ lastAsked' = IF over THEN first ELSE lastAsked
       /\ asked' = IF cursor = 0 THEN <<>> ELSE asked
       /\ lastBatch' = IF over THEN s1.queue ELSE lastBatch
       /\ lastExec' = IF over THEN log ELSE lastExec
       /\ lastThrew' = IF over THEN (IF throws THEN pos ELSE 0) ELSE lastThrew
       /\ nFlushes' = IF over THEN nFlushes + 1 ELSE nFlushes
       /\ owed' = (owed \ {job}) \cup (IF nested = 0 THEN {} ELSE {nested})
       /\ UNCHANGED <<nCalls, rendVars, compVars, funVars>>

(***************************************************************************)
(* The platform tree and the primitives of renderer.js 89-160.             *)
(* A handle is an index into dom; 0 stands for null and for undefined.     *)
(***************************************************************************)
\* the container handed to render
RootEl == 1

\* tag names: the vnode types with typeof type === 'string'
Tags == {"ul", "div", "span", "p"}

\* the attribute names of the model, in the order for...in visits them
PropOrder == <<"id", "class">>

NoMap == [k \in {} |-> ""]

Get(map, k) == IF k \in DOMAIN map THEN map[k] ELSE "undefined"

Put(map, k, v) == [x \in DOMAIN map \cup {k} |-> IF x = k THEN v ELSE map[x]]

DomNode(tag, text) ==
  [tag |-> tag, parent |-> 0, kids |-> <<>>, text |-> text, attrs |-> NoMap]

IndexOf(s, x) == CHOOSE i \in 1..Len(s) : s[i] = x

Without(s, x) ==
  LET i == IndexOf(s, x) IN SubSeq(s, 1, i - 1) \o SubSeq(s, i + 1, Len(s))

InsertAt(s, i, x) == SubSeq(s, 1, i - 1) \o <<x>> \o SubSeq(s, i, Len(s))

\* one call of a platform primitive
Op(name, el, parent, anchor, was) ==
  [op |-> name, el |-> el, parent |-> parent, anchor |-> anchor, was |-> was]

\* The world a render works on: the platform tree (dom), the primitives
\* called so far (log), the exception thrown if any (err), and the two things
\* the code leaves open: whether it runs as strict-mode code (strict), and
\* which of the longest increasing subsequences lis returns (prefer).
\* sources (the arrays passed to lis) and branch record what the render did.
\* For components it also holds the instances (insts), the currentInstance
\* slot (cur), the type the default slot of KeepAlive returns (slot), whether
\* const is run natively (nativeConst), the events so far, and the scheduler
\* state (queue, isFlushing, scheduled).
Ok(w) == w.err = ""

Throw(w, e) == IF Ok(w) THEN [w EXCEPT !.err = e] ELSE w

Emit(w, d, rec) == [w EXCEPT !.dom = d, !.log = Append(@, rec)]

\* document.createElement(tag), renderer.js 90-92
createElement(w, tag) ==
  LET h == Len(w.dom) + 1
  IN [w  |-> Emit(w, Append(w.dom, DomNode(tag, "")), Op("createElement", h, 0, 0, 0)),
      el |-> h]

\* document.createTextNode(text), renderer.js 100-102
createText(w, text) ==
  LET h == Len(w.dom) + 1
  IN [w  |-> Emit(w, Append(w.dom, DomNode("#text", text)), Op("createText", h, 0, 0, 0)),
      el |-> h]

Detach(d, el) ==
  IF d[el].parent = 0 THEN d
  ELSE [d EXCEPT ![d[el].parent].kids = Without(@, el), ![el].parent = 0]

RECURSIVE DetachAll(_, _)
DetachAll(d, kids) ==
  IF kids = <<>> THEN d ELSE DetachAll(Detach(d, kids[1]), Tail(kids))

\* el.textContent = text, renderer.js 93-95: the children leave the element
setElementText(w, el, text) ==
  IF ~Ok(w) THEN w
  ELSE IF el = 0 THEN Throw(w, "TypeError")
  ELSE Emit(w, [DetachAll(w.dom, w.dom[el].kids) EXCEPT ![el].text = text],
            Op("setElementText", el, 0, 0, 0))

\* el.nodeValue = text, renderer.js 103-105
setText(w, el, text) ==
  IF ~Ok(w) THEN w
  ELSE IF el = 0 THEN Throw(w, "TypeError")
  ELSE Emit(w, [w.dom EXCEPT ![el].text = text], Op("setText", el, 0, 0, 0))

\* parent.insertBefore(el, anchor), renderer.js 96-99.  A node that already
\* has a parent is taken out of it first; an anchor that is no child of
\* parent is a NotFoundError; inserting a node before itself leaves it where
\* it is.
insert(w, el, parent, anchor) ==
  IF ~Ok(w) THEN w
  ELSE IF el = 0 \/ parent = 0 THEN Throw(w, "TypeError")
  ELSE IF anchor # 0 /\ w.dom[anchor].parent # parent THEN Throw(w, "NotFoundError")
  ELSE LET sibs == w.dom[parent].kids
           ref  == IF anchor # el THEN anchor
                   ELSE IF IndexOf(sibs, el) = Len(sibs) THEN 0
                   ELSE sibs[IndexOf(sibs, el) + 1]
           d1   == Detach(w.dom, el)
           kids == d1[parent].kids
           at   == IF ref = 0 THEN Len(kids) + 1 ELSE IndexOf(kids, ref)
           d2   == [d1 EXCEPT ![parent].kids = InsertAt(kids, at, el),
                              ![el].parent = parent]
       IN Emit(w, d2, Op("insert", el, parent, anchor, w.dom[el].parent))

\* parent.removeChild(el), patch.js 146-150
removeChild(w, parent, el) ==
  IF ~Ok(w) THEN w
  ELSE Emit(w, Detach(w.dom, el), Op("removeChild", el, parent, 0, parent))

\* patchProps(el, key, prevValue, nextValue), renderer.js 107-159, for the
\* attribute names of the model: class goes to className (null becomes ''),
\* the others are set as given.
patchProps(w, el, key, prev, next) ==
  IF ~Ok(w) THEN w
  ELSE IF el = 0 THEN Throw(w, "TypeError")
  ELSE LET v == IF key = "class" /\ next = "null" THEN "" ELSE next
       IN Emit(w, [w.dom EXCEPT ![el].attrs = Put(@, key, v)],
               Op("patchProps", el, 0, 0, 0))

(***************************************************************************)
(* Virtual nodes.  type is a tag name, "Text" or "Fragment"; key 0 is no   *)
(* key; ck tells the shape of children: "text" (a string, in text),        *)
(* "list" (an array, in list) or "none"; el is the handle, 0 while unset.  *)
(***************************************************************************)
NoProps == [def |-> FALSE, map |-> NoMap]

Props(map) == [def |-> TRUE, map |-> map]

VNode(type, key, props, ck, text, list) ==
  [type |-> type, key |-> key, props |-> props, ck |-> ck, text |-> text,
   list |-> list, el |-> 0,
   \* of a component vnode: the instance handle (0: undefined) and the marks
   \* KeepAlive sets, keepalive.js 61-71
   component |-> 0, keptAlive |-> FALSE, shouldKeepAlive |-> FALSE,
   keepAliveInstance |-> 0]

\* the null passed for an absent old node
NullV == VNode("null", 0, NoProps, "none", "", <<>>)

IsNull(n) == n.type = "null"

(***************************************************************************)
(* lis(source) is called by quickDiff.js 194 and defined nowhere in the    *)
(* repository ("算法实现略").  It is modelled from the specification: the     *)
(* positions, ascending, of one longest strictly increasing subsequence    *)
(* of the entries that are not -1.  Which one is left open; w.prefer       *)
(* settles it: the candidate sharing most positions with w.prefer.         *)
(***************************************************************************)
Increasing(source, c) ==
  /\ \A i \in c : source[i + 1] # -1
  /\ \A i, k \in c : i < k => source[i + 1] < source[k + 1]

LisCandidates(source) ==
  LET inc  == {c \in SUBSET (0..(Len(source) - 1)) : Increasing(source, c)}
      best == CHOOSE n \in 0..Len(source) :
                /\ \E c \in inc : Cardinality(c) = n
                /\ \A c \in inc : Cardinality(c) <= n
  IN {c \in inc : Cardinality(c) = best}

RECURSIVE Ascending(_)
Ascending(c) ==
  IF c = {} THEN <<>>
  ELSE LET m == CHOOSE x \in c : \A y \in c : y <= x
       IN Append(Ascending(c \ {m}), m)

\* an lis that takes every entry larger than the last one it took
RECURSIVE GreedyFrom(_, _, _)
GreedyFrom(source, i, floor) ==
  IF i > Len(source) THEN <<>>
  ELSE IF source[i] # -1 /\ source[i] > floor
    THEN <<i - 1>> \o GreedyFrom(source, i + 1, source[i])
  ELSE GreedyFrom(source, i + 1, floor)

lisGreedy(source, prefer) == GreedyFrom(source, 1, -1)

lis(source, prefer) ==
  LET cands == LisCandidates(source)
      score(c) == Cardinality(c \cap prefer)
      top == {c \in cands : \A o \in cands : score(o) <= score(c)}
  IN Ascending(CHOOSE c \in top : TRUE)

(***************************************************************************)
(* Component props, quickDiff.js 455-489.  A props object is a map from    *)
(* its own keys to values; "undefined" is the value undefined, also what    *)
(* reading an absent key gives (Get).                                      *)
(***************************************************************************)
\* the keys passed to a component: a declared prop, an event handler, and a
\* key the component does not declare
AttrKeys == {"title", "onClick", "id"}

AttrValues == {"undefined", "a", "b"}

\* every props object over these keys and values
AttrMaps == UNION {[ks -> AttrValues] : ks \in SUBSET AttrKeys}

\* hasPropsChanged(prevProps, nextProps), quickDiff.js 475-489
hasPropsChanged(prevProps, nextProps) ==
  IF Cardinality(DOMAIN nextProps) # Cardinality(DOMAIN prevProps) THEN TRUE
  ELSE \E key \in DOMAIN nextProps : nextProps[key] # Get(prevProps, key)

(***************************************************************************)
(* Components, quickDiff.js 236-506.  vnode.type of a component vnode is   *)
(* the name of its options object (or function); an instance is a record   *)
(* of insts, and its handle is its index.                                  *)
(***************************************************************************)
CompTypes == {"CompA", "CompB", "CompHook", "CompThrow", "Func", "KeepAlive"}

\* a stateful component with every option: props, data, a setup that returns
\* a state object, the six lifecycle hooks, and a render that returns one
\* element showing props.title and the state
StatefulOptions ==
  [functional |-> FALSE, render |-> TRUE, data |-> TRUE,
   props |-> [def |-> TRUE, keys |-> {"title"}], setup |-> "state", hooks |-> TRUE,
   tag |-> "div", isKeepAlive |-> FALSE]

\* the options of each component type, as mountComponent reads them,
\* quickDiff.js 238-262.  setup is "state" (returns a state object), "hook"
\* (calls onMounted, then returns a state object), "throws", "keepalive"
\* (keepalive.js 9-76: returns the render function) or "none" (no setup
\* option: a functional component has only render and props).
Options(type) ==
  CASE type = "CompA" -> StatefulOptions
    [] type = "CompB" -> [StatefulOptions EXCEPT !.tag = "span"]
    [] type = "CompHook" -> [StatefulOptions EXCEPT !.setup = "hook"]
    [] type = "CompThrow" -> [StatefulOptions EXCEPT !.setup = "throws"]
    [] type = "Func" ->
         [functional |-> TRUE, render |-> TRUE, data |-> FALSE,
          props |-> [def |-> TRUE, keys |-> {"title"}], setup |-> "none",
          hooks |-> FALSE, tag |-> "p", isKeepAlive |-> FALSE]
    [] type = "KeepAlive" ->
         [functional |-> FALSE, render |-> FALSE, data |-> FALSE,
          props |-> [def |-> TRUE, keys |-> {"include", "exclude"}],
          setup |-> "keepalive", hooks |-> FALSE, tag |-> "", isKeepAlive |-> TRUE]

\* the keys of a props object in the order for...in visits them
KeyOrder == <<"title", "onClick", "id", "include", "exclude">>

\* key.startsWith('on'), quickDiff.js 462
StartsWithOn(key) == key \in {"onClick"}

\* the keys the render function of a component reads from its props
RenderReads == {"title"}

\* one thing that happened to instance c (0: to no instance)
Ev(w, c, ev) == [w EXCEPT !.events = Append(@, [c |-> c, ev |-> ev])]

\* hook && hook.call(renderContext), quickDiff.js 265, 388, 400, 409, 414, 422
Hook(w, c, type, ev) == IF Options(type).hooks /\ Ok(w) THEN Ev(w, c, ev) ELSE w

\* resolveProps(options, propsData), quickDiff.js 455-473: `key in options`
\* of an undefined options is a TypeError; for...in over an undefined
\* propsData visits nothing
resolveProps(w, options, propsData) ==
  LET keys == IF propsData.def THEN DOMAIN propsData.map ELSE {}
      own  == {k \in keys : k \in options.keys \/ StartsWithOn(k)}
  IN IF keys # {} /\ ~options.def
       THEN [w |-> Throw(w, "TypeError"), props |-> NoMap, attrs |-> NoMap]
     ELSE [w |-> w,
           props |-> [k \in own |-> propsData.map[k]],
           attrs |-> [k \in keys \ own |-> propsData.map[k]]]

\* the instance object of quickDiff.js 273-288, with what its closures hold:
\* container and anchor (the effect), render (whether a render function is
\* there), tracked (whether the effect has run render and so depends on what
\* it read), and for KeepAlive the cache (type -> instance handle of the
\* cached vnode's component, 0 while undefined) and the storage container
NewInstance(type, props, container, anchor) ==
  [type |-> type, state |-> IF Options(type).data THEN 0 ELSE -1, props |-> props,
   isMounted |-> FALSE, subTree |-> NullV, mounted |-> 0,
   keepAliveCtx |-> Options(type).isKeepAlive,
   container |-> container, anchor |-> anchor, render |-> Options(type).render,
   tracked |-> FALSE, cache |-> NoMap, storage |-> 0]

\* queueJob(effectFn) called by the effect's scheduler, quickDiff.js 426-430
enqueue(w, c) ==
  LET s == queueJob([queue |-> w.queue, isFlushing |-> w.isFlushing,
                     scheduled |-> w.scheduled], c)
  IN Ev([w EXCEPT !.queue = s.queue, !.isFlushing = s.isFlushing,
                  !.scheduled = s.scheduled], c, "queueJob")

\* a change of a reactive value the render of c read: its effect is handed
\* to the scheduler
trigger(w, c, key) ==
  IF w.insts[c].tracked /\ key \in RenderReads \cup {"state", "slot"}
    THEN enqueue(w, c)
  ELSE w

\* props[k] = v on the shallowReactive props of c, quickDiff.js 445
setProp(w, c, k, v) ==
  LET changed == k \notin DOMAIN w.insts[c].props \/ w.insts[c].props[k] # v
      w1 == Ev([w EXCEPT !.insts[c].props = Put(@, k, v)], c, "set")
  IN IF changed THEN trigger(w1, c, k) ELSE w1

\* delete props[k] on the shallowReactive props of c, quickDiff.js 449
deleteProp(w, c, k) ==
  LET w1 == Ev([w EXCEPT !.insts[c].props =
                           [x \in DOMAIN @ \ {k} |-> w.insts[c].props[x]]],
               c, "delete")
  IN trigger(w1, c, k)

\* onMounted(), quickDiff.js 499-506: with an instance in the slot it pushes
\* fn, a name declared nowhere (the function has no parameter), which is a
\* ReferenceError; with none it reports a diagnostic
onMounted(w) ==
  IF ~Ok(w) THEN w
  ELSE IF w.cur # 0 THEN Throw(w, "ReferenceError")
  ELSE Ev(w, 0, "diagnostic")

\* move(vnode, container, anchor) of keepAliveCtx, quickDiff.js 294-298:
\* insert(vnode.component.subTree.el, container, anchor)
move(w, vnode, container, anchor) ==
  IF ~Ok(w) THEN w
  ELSE IF vnode.component = 0 THEN Throw(w, "TypeError")
  ELSE IF IsNull(w.insts[vnode.component].subTree) THEN Throw(w, "TypeError")
  ELSE insert(w, w.insts[vnode.component].subTree.el, container, anchor)

\* instance._deActivate(vnode), keepalive.js 25-27
deActivate(w, vnode) ==
  IF vnode.keepAliveInstance = 0 THEN Throw(w, "TypeError")
  ELSE move(w, vnode, w.insts[vnode.keepAliveInstance].storage, 0)

\* instance._activate(vnode, container, anchor), keepalive.js 28-30
activate(w, vnode, container, anchor) ==
  IF vnode.keepAliveInstance = 0 THEN Throw(w, "TypeError")
  ELSE move(w, vnode, container, anchor)

(***************************************************************************)
(* patch.js: patch, unmount, mountElement, patchElement, patchChildren;    *)
(* quickDiff.js: patchKeyedChildren.  Each takes the world and returns it; *)
(* those that write n2.el also return the new vnode as they leave it.      *)
(***************************************************************************)
RECURSIVE patch(_, _, _, _, _), unmount(_, _), unmountAll(_, _),
          mountAll(_, _, _, _), mountElement(_, _, _, _), patchElement(_, _, _),
          patchChildren(_, _, _, _), patchKeyedChildren(_, _, _, _),
          prefixLoop(_, _, _, _, _), suffixLoop(_, _, _, _, _, _),
          appendLoop(_, _, _, _, _, _), matchLoop(_, _, _, _, _, _),
          moveLoop(_, _, _, _, _, _), mountComponent(_, _, _, _),
          patchComponent(_, _, _, _), process(_, _, _, _, _),
          tpMountAll(_, _, _, _, _), tpMoveAll(_, _, _, _)

\* vnode.children.forEach(c => unmount(c)), patch.js 130, 247, 269
unmountAll(w, list) ==
  IF list = <<>> \/ ~Ok(w) THEN w
  ELSE unmountAll(unmount(w, list[1]), Tail(list))

\* an unmount that forgets KeepAlive: a component marked shouldKeepAlive is
\* unmounted like any other
unmountIgnoresKeepAlive(w, vnode) ==
  IF ~Ok(w) THEN w
  ELSE IF vnode.type = "Fragment"
    THEN IF vnode.ck = "list" THEN unmountAll(w, vnode.list)
         ELSE Throw(w, "TypeError")
  ELSE IF vnode.type = "Teleport" THEN Throw(w, "TypeError")
  ELSE IF vnode.type \in CompTypes /\ ~Options(vnode.type).functional
    THEN IF vnode.component = 0 THEN Throw(w, "TypeError")
         ELSE IF IsNull(w.insts[vnode.component].subTree) THEN Throw(w, "TypeError")
         ELSE unmount(w, w.insts[vnode.component].subTree)
  ELSE IF vnode.el = 0 THEN Throw(w, "TypeError")
  ELSE LET parent == w.dom[vnode.el].parent
       IN IF parent # 0 THEN removeChild(w, parent, vnode.el) ELSE w

\* unmount(vnode), patch.js 127-151; a Teleport is an object type with no
\* component: vnode.component.subTree is a TypeError
unmount(w, vnode) ==
  IF ~Ok(w) THEN w
  ELSE IF vnode.type = "Fragment"
    THEN IF vnode.ck = "list" THEN unmountAll(w, vnode.list)
         ELSE Throw(w, "TypeError")
  ELSE IF vnode.type = "Teleport" THEN Throw(w, "TypeError")
  ELSE IF vnode.type \in CompTypes /\ ~Options(vnode.type).functional
    THEN IF vnode.shouldKeepAlive THEN deActivate(w, vnode)
         ELSE IF vnode.component = 0 THEN Throw(w, "TypeError")
         ELSE IF IsNull(w.insts[vnode.component].subTree) THEN Throw(w, "TypeError")
         ELSE unmount(w, w.insts[vnode.component].subTree)
  ELSE IF vnode.el = 0 THEN Throw(w, "TypeError")
  ELSE LET parent == w.dom[vnode.el].parent
       IN IF parent # 0 THEN removeChild(w, parent, vnode.el) ELSE w

\* children.forEach(c => patch(null, c, container)), patch.js 68, 178, 263
mountAll(w, list, i, container) ==
  IF i > Len(list) \/ ~Ok(w) THEN [w |-> w, list |-> list]
  ELSE LET r == patch(w, NullV, list[i], container, 0)
       IN mountAll(r.w, [list EXCEPT ![i] = r.n], i + 1, container)

RECURSIVE mountProps(_, _, _, _)
\* for (const key in vnode.props) patchProps(el, key, null, ...), patch.js 186-192
mountProps(w, el, props, i) ==
  IF i > Len(PropOrder) \/ ~Ok(w) THEN w
  ELSE LET key == PropOrder[i]
       IN mountProps(IF key \in DOMAIN props.map
                       THEN patchProps(w, el, key, "null", props.map[key])
                       ELSE w,
                     el, props, i + 1)

\* the children of a new element, patch.js 172-181; c is the created element
mountKids(c, vnode) ==
  IF vnode.ck = "text"
    THEN [w |-> setElementText(c.w, c.el, vnode.text), list |-> vnode.list]
  ELSE IF vnode.ck = "list" THEN mountAll(c.w, vnode.list, 1, c.el)
  ELSE [w |-> c.w, list |-> vnode.list]

\* the props of a new element and its insertion, patch.js 184-195; k is what
\* mounting the children left
mountFinish(k, el, vnode, container, anchor) ==
  [w |-> insert(IF vnode.props.def THEN mountProps(k.w, el, vnode.props, 1) ELSE k.w,
                el, container, anchor),
   n |-> [vnode EXCEPT !.el = el, !.list = k.list]]

\* patch.js 170-195 once the element exists
mountCreated(c, vnode, container, anchor) ==
  mountFinish(mountKids(c, vnode), c.el, vnode, container, anchor)

\* mountElement(vnode, container, anchor), patch.js 168-196
mountElement(w, vnode, container, anchor) ==
  mountCreated(createElement(w, vnode.type), vnode, container, anchor)

RECURSIVE setNewProps(_, _, _, _, _), dropOldProps(_, _, _, _, _)
\* for (const key in newProps) ..., patch.js 216-220; reading oldProps[key]
\* of an undefined oldProps is a TypeError
setNewProps(w, el, old, new, i) ==
  IF i > Len(PropOrder) \/ ~Ok(w) THEN w
  ELSE LET key == PropOrder[i]
       IN setNewProps(IF key \notin DOMAIN new.map THEN w
                      ELSE IF ~old.def THEN Throw(w, "TypeError")
                      ELSE IF new.map[key] # Get(old.map, key)
                        THEN patchProps(w, el, key, Get(old.map, key), new.map[key])
                      ELSE w,
                      el, old, new, i + 1)

\* for (const key in oldProps) ..., patch.js 221-225; `key in newProps` of
\* an undefined newProps is a TypeError
dropOldProps(w, el, old, new, i) ==
  IF i > Len(PropOrder) \/ ~Ok(w) THEN w
  ELSE LET key == PropOrder[i]
       IN dropOldProps(IF key \notin DOMAIN old.map THEN w
                       ELSE IF ~new.def THEN Throw(w, "TypeError")
                       ELSE IF key \notin DOMAIN new.map
                         THEN patchProps(w, el, key, old.map[key], "null")
                       ELSE w,
                       el, old, new, i + 1)

\* patchElement(n1, n2), patch.js 211-229
patchElement(w, n1, n2) ==
  patchChildren(dropOldProps(setNewProps(w, n1.el, n1.props, n2.props, 1),
                             n1.el, n1.props, n2.props, 1),
                n1, [n2 EXCEPT !.el = n1.el], n1.el)

\* a mounted list stored back into its vnode
withMounted(r, n2) == [w |-> r.w, n |-> [n2 EXCEPT !.list = r.list]]

\* a patchChildren that leaves the old text when the new node has no children
patchChildrenKeepsText(w, n1, n2, container) ==
  IF ~Ok(w) THEN [w |-> w, n |-> n2]
  ELSE IF n2.ck = "text"
    THEN [w |-> setElementText(IF n1.ck = "list" THEN unmountAll(w, n1.list) ELSE w,
                               container, n2.text),
          n |-> n2]
  ELSE IF n2.ck = "list"
    THEN IF n1.ck = "list" THEN patchKeyedChildren(w, n1, n2, container)
         ELSE withMounted(mountAll(setElementText(w, container, ""), n2.list, 1,
                                   container),
                          n2)
  ELSE IF n1.ck = "list" THEN [w |-> unmountAll(w, n1.list), n |-> n2]
  ELSE [w |-> w, n |-> n2]

\* patchChildren(n1, n2, container), patch.js 241-276
patchChildren(w, n1, n2, container) ==
  IF ~Ok(w) THEN [w |-> w, n |-> n2]
  ELSE IF n2.ck = "text"
    THEN [w |-> setElementText(IF n1.ck = "list" THEN unmountAll(w, n1.list) ELSE w,
                               container, n2.text),
          n |-> n2]
  ELSE IF n2.ck = "list"
    THEN IF n1.ck = "list" THEN patchKeyedChildren(w, n1, n2, container)
         ELSE withMounted(mountAll(setElementText(w, container, ""), n2.list, 1,
                                   container),
                          n2)
  ELSE IF n1.ck = "list" THEN [w |-> unmountAll(w, n1.list), n |-> n2]
  ELSE IF n1.ck = "text" THEN [w |-> setElementText(w, container, ""), n |-> n2]
  ELSE [w |-> w, n |-> n2]

\* a new text node, patch.js 50-52: insert(el, container), with no anchor
mountText(c, n2, container) ==
  [w |-> insert(c.w, c.el, container, 0), n |-> [n2 EXCEPT !.el = c.el]]

\* the branches on n2.type, patch.js 38-112; old is n1, or null after the
\* unmount of patch.js 32-35
patchByType(w, old, n2, container, anchor) ==
  IF ~Ok(w) THEN [w |-> w, n |-> n2]
  ELSE IF n2.type \in Tags
    THEN IF IsNull(old) THEN mountElement(w, n2, container, anchor)
         ELSE patchElement(w, old, n2)
  ELSE IF n2.type = "Text"
    THEN IF IsNull(old) THEN mountText(createText(w, n2.text), n2, container)
         ELSE [w |-> IF n2.text # old.text THEN setText(w, old.el, n2.text) ELSE w,
               n |-> [n2 EXCEPT !.el = old.el]]
  ELSE IF n2.type = "Fragment"
    THEN IF IsNull(old)
           THEN IF n2.ck # "list" THEN [w |-> Throw(w, "TypeError"), n |-> n2]
                ELSE withMounted(mountAll(w, n2.list, 1, container), n2)
         ELSE patchChildren(w, old, n2, container)
  ELSE IF n2.type = "Teleport" THEN process(w, old, n2, container, anchor)
  ELSE IF n2.type \in CompTypes
    THEN IF IsNull(old)
           THEN IF n2.keptAlive THEN [w |-> activate(w, n2, container, anchor), n |-> n2]
                ELSE mountComponent(w, n2, container, anchor)
         ELSE patchComponent(w, old, n2, anchor)
  ELSE [w |-> w, n |-> n2]

\* a patch that forgets to unmount an old node of another type
patchKeepsOld(w, n1, n2, container, anchor) ==
  IF ~Ok(w) THEN [w |-> w, n |-> n2]
  ELSE IF ~IsNull(n1) /\ n1.type # n2.type
    THEN patchByType(w, NullV, n2, container, anchor)
  ELSE patchByType(w, n1, n2, container, anchor)

\* patch(n1, n2, container, anchor), patch.js 30-113, for elements, Text and
\* Fragment
patch(w, n1, n2, container, anchor) ==
  IF ~Ok(w) THEN [w |-> w, n |-> n2]
  ELSE IF ~IsNull(n1) /\ n1.type # n2.type
    THEN patchByType(unmount(w, n1), NullV, n2, container, anchor)
  ELSE patchByType(w, n1, n2, container, anchor)

\* document.querySelector(selector) for an id selector: the first node of
\* the document with this id, 0 (null) when there is none
querySelector(w, selector) ==
  LET hits == {h \in 1..Len(w.dom) : "id" \in DOMAIN w.dom[h].attrs
                                       /\ selector = "#" \o w.dom[h].attrs["id"]}
  IN IF hits = {} THEN 0 ELSE CHOOSE h \in hits : \A x \in hits : h <= x

\* n2.children.forEach(c => patch(null, c, target, anchor)), teleport.js 14
tpMountAll(w, list, i, target, anchor) ==
  IF i > Len(list) \/ ~Ok(w) THEN [w |-> w, list |-> list]
  ELSE LET r == patch(w, NullV, list[i], target, anchor)
       IN tpMountAll(r.w, [list EXCEPT ![i] = r.n], i + 1, target, anchor)

\* move(vnode, container, anchor) of the internals, patch.js 84-90, called
\* without an anchor
tpMove(w, vnode, container) ==
  IF ~Ok(w) THEN w
  ELSE IF vnode.component # 0
    THEN IF IsNull(w.insts[vnode.component].subTree) THEN Throw(w, "TypeError")
         ELSE insert(w, w.insts[vnode.component].subTree.el, container, 0)
  ELSE insert(w, vnode.el, container, 0)

\* n2.children.forEach(c => move(c, newTarget)), teleport.js 25
tpMoveAll(w, list, i, target) ==
  IF i > Len(list) \/ ~Ok(w) THEN w
  ELSE tpMoveAll(tpMove(w, list[i], target), list, i + 1, target)

\* a process that updates the children and leaves them where they are
processStays(w, n1, n2, container, anchor) ==
  IF ~Ok(w) THEN [w |-> w, n |-> n2]
  ELSE IF IsNull(n1)
    THEN IF ~n2.props.def \/ n2.ck # "list" THEN [w |-> Throw(w, "TypeError"), n |-> n2]
         ELSE withMounted(tpMountAll(w, n2.list, 1,
                                     querySelector(w, Get(n2.props.map, "to")), anchor),
                          n2)
  ELSE patchChildren(w, n1, n2, container)

\* the update of teleport.js 16-26, r being what patchChildren left: the
\* children are moved when `to` differs
tpUpdated(r, n1, n2) ==
  IF ~Ok(r.w) THEN r
  ELSE IF ~n2.props.def \/ ~n1.props.def THEN [w |-> Throw(r.w, "TypeError"), n |-> r.n]
  ELSE IF Get(n2.props.map, "to") = Get(n1.props.map, "to") THEN r
  ELSE IF r.n.ck # "list" THEN [w |-> Throw(r.w, "TypeError"), n |-> r.n]
  ELSE [w |-> tpMoveAll(r.w, r.n.list, 1, querySelector(r.w, Get(n2.props.map, "to"))),
        n |-> r.n]

\* Teleport.process(n1, n2, container, anchor, internals), teleport.js 3-28;
\* the props of a vnode without props are undefined
process(w, n1, n2, container, anchor) ==
  IF ~Ok(w) THEN [w |-> w, n |-> n2]
  ELSE IF IsNull(n1)
    THEN IF ~n2.props.def \/ n2.ck # "list" THEN [w |-> Throw(w, "TypeError"), n |-> n2]
         ELSE withMounted(tpMountAll(w, n2.list, 1,
                                     querySelector(w, Get(n2.props.map, "to")), anchor),
                          n2)
  ELSE tpUpdated(patchChildren(w, n1, n2, container), n1, n2)

\* the first while loop, quickDiff.js 87-98; j counts from 0 as in the code,
\* and reading .key of an element past either end is a TypeError
prefixLoop(w, oc, nc, j, container) ==
  IF ~Ok(w) THEN [w |-> w, nc |-> nc, j |-> j]
  ELSE IF j >= Len(oc) \/ j >= Len(nc)
    THEN [w |-> Throw(w, "TypeError"), nc |-> nc, j |-> j]
  ELSE IF oc[j + 1].key # nc[j + 1].key THEN [w |-> w, nc |-> nc, j |-> j]
  ELSE LET r == patch(w, oc[j + 1], nc[j + 1], container, 0)
       IN prefixLoop(r.w, oc, [nc EXCEPT ![j + 1] = r.n], j + 1, container)

\* the second while loop, quickDiff.js 102-118; index -1 reads undefined
suffixLoop(w, oc, nc, oldEnd, newEnd, container) ==
  IF ~Ok(w) THEN [w |-> w, nc |-> nc, oldEnd |-> oldEnd, newEnd |-> newEnd]
  ELSE IF oldEnd < 0 \/ newEnd < 0
    THEN [w |-> Throw(w, "TypeError"), nc |-> nc, oldEnd |-> oldEnd, newEnd |-> newEnd]
  ELSE IF oc[oldEnd + 1].key # nc[newEnd + 1].key
    THEN [w |-> w, nc |-> nc, oldEnd |-> oldEnd, newEnd |-> newEnd]
  ELSE LET r == patch(w, oc[oldEnd + 1], nc[newEnd + 1], container, 0)
       IN suffixLoop(r.w, oc, [nc EXCEPT ![newEnd + 1] = r.n],
                     oldEnd - 1, newEnd - 1, container)

\* newChildren[i].el, or null when i is past the end, quickDiff.js 126-127,
\* 210-211, 222-223
anchorAt(nc, i) == IF i < Len(nc) THEN nc[i + 1].el ELSE 0

\* while (j <= newEnd) patch(null, newChildren[j++], container, anchor),
\* quickDiff.js 129-131
appendLoop(w, nc, j, newEnd, container, anchor) ==
  IF j > newEnd \/ ~Ok(w) THEN [w |-> w, nc |-> nc]
  ELSE LET r == patch(w, NullV, nc[j + 1], container, anchor)
       IN appendLoop(r.w, [nc EXCEPT ![j + 1] = r.n], j + 1, newEnd, container, anchor)

\* keyIndex[key], quickDiff.js 161-164 and 169: the index in the window of
\* the new child with this key, -1 standing for undefined
keyIndexOf(nc, key, newStart, newEnd) ==
  LET hits == {i \in newStart..newEnd : nc[i + 1].key = key}
  IN IF hits = {} THEN -1 ELSE CHOOSE i \in hits : \A k \in hits : k <= i

\* quickDiff.js 171-180: the old child at i was patched against the new
\* child at k, r being what patch returned
matched(m, r, k, i, newStart) ==
  [m EXCEPT !.w = r.w,
            !.nc[k + 1] = r.n,
            !.source[k - newStart + 1] = i,
            !.moved = IF k < m.pos THEN TRUE ELSE @,
            !.pos = IF k < m.pos THEN @ ELSE k]

\* quickDiff.js 167-187 for the old child at i, k being keyIndex[its key]
matchOne(m, oldVNode, k, i, newStart) ==
  IF k # -1
    THEN matched(m, patch(m.w, oldVNode, m.nc[k + 1], m.container, 0), k, i, newStart)
  ELSE [m EXCEPT !.w = unmount(m.w, oldVNode)]

\* the loop over the old window, quickDiff.js 166-188.  m is the record of
\* the loop's variables: w, nc, source, moved, pos.
matchLoop(m, oc, i, oldEnd, newStart, newEnd) ==
  IF i > oldEnd \/ ~Ok(m.w) THEN m
  ELSE matchLoop(matchOne(m, oc[i + 1],
                          keyIndexOf(m.nc, oc[i + 1].key, newStart, newEnd),
                          i, newStart),
                 oc, i + 1, oldEnd, newStart, newEnd)

\* `const nextPos = (post = pos + 1)`, quickDiff.js 220: post is declared
\* nowhere, so in strict-mode code the assignment is a ReferenceError
assignPost(w) == IF w.strict THEN Throw(w, "ReferenceError") ELSE w

\* a new child mounted in the backward loop, quickDiff.js 206-213, r being
\* what patch returned
mounted(m, r, pos) == [m EXCEPT !.w = r.w, !.nc[pos + 1] = r.n]

\* one round of the backward loop that mounts or moves, quickDiff.js
\* 202-225, on the new child at pos
moveOne(m, i, pos, anchor, container) ==
  IF m.source[i + 1] = -1
    THEN mounted(m, patch(m.w, NullV, m.nc[pos + 1], container, anchor), pos)
  ELSE [m EXCEPT !.w = insert(assignPost(m.w), m.nc[pos + 1].el, container, anchor)]

\* the backward loop, quickDiff.js 201-231; s is -1 when seq is used up, and
\* seq[-1] is undefined, which no i equals
moveLoop(m, seq, s, i, newStart, container) ==
  IF i < 0 \/ ~Ok(m.w) THEN m
  ELSE IF m.source[i + 1] # -1 /\ s >= 0 /\ i = seq[s + 1]
    THEN moveLoop(m, seq, s - 1, i - 1, newStart, container)
  ELSE moveLoop(moveOne(m, i, i + newStart, anchorAt(m.nc, i + newStart + 1),
                        container),
                seq, s, i - 1, newStart, container)

\* quickDiff.js 190-232: the backward loop runs only when moved is true
movePass(m, count, newStart, seq, container) ==
  moveLoop(m, seq, Len(seq) - 1, count - 1, newStart, container)

\* quickDiff.js 190-232, m being what the loop over the old window left
afterMatch(m, count, newStart, container) ==
  IF m.moved /\ Ok(m.w)
    THEN movePass([m EXCEPT !.w.sources = @ \cup {m.source}], count, newStart,
                  lis(m.source, m.w.prefer), container)
  ELSE m

\* the else branch of quickDiff.js 138-233
generalCase(w, oc, nc, j, oldEnd, newEnd, container) ==
  IF newEnd - j + 1 < 0 THEN [w |-> Throw(w, "RangeError"), nc |-> nc]
  ELSE
  afterMatch(matchLoop([w |-> w, nc |-> nc,
                        source |-> [x \in 1..(newEnd - j + 1) |-> -1],
                        moved |-> FALSE, pos |-> 0, container |-> container],
                       oc, j, oldEnd, j, newEnd),
             newEnd - j + 1, j, container)

\* the three-way branch after the two loops, quickDiff.js 121-233; b is
\* the state the suffix loop left
keyedBranch(b, oc, j, container) ==
  IF ~Ok(b.w) THEN [w |-> [b.w EXCEPT !.branch = "threw"], nc |-> b.nc]
  ELSE IF j > b.oldEnd /\ j <= b.newEnd
    THEN appendLoop([b.w EXCEPT !.branch = "append"], b.nc, j, b.newEnd, container,
                    anchorAt(b.nc, b.newEnd + 1))
  ELSE IF j > b.newEnd /\ j <= b.oldEnd
    THEN [w |-> unmountAll([b.w EXCEPT !.branch = "remove"],
                           SubSeq(oc, j + 1, b.oldEnd + 1)),
          nc |-> b.nc]
  ELSE generalCase([b.w EXCEPT !.branch = "general"], oc, b.nc, j, b.oldEnd,
                   b.newEnd, container)

\* the suffix loop entered with what the prefix loop left, quickDiff.js 100-118
keyedAfterPrefix(a, oc, container) ==
  keyedBranch(suffixLoop(a.w, oc, a.nc, Len(oc) - 1, Len(a.nc) - 1, container),
              oc, a.j, container)

\* the new vnode with its patched children
withList(c, n2) == [w |-> c.w, n |-> [n2 EXCEPT !.list = c.nc]]

\* patchKeyedChildren(n1, n2, container), quickDiff.js 81-234
patchKeyedChildren(w, n1, n2, container) ==
  withList(keyedAfterPrefix(prefixLoop(w, n1.list, n2.list, 0, container),
                            n1.list, container),
           n2)

(***************************************************************************)
(* mountComponent and patchComponent, quickDiff.js 236-452.                *)
(***************************************************************************)
\* the vnode the slot of KeepAlive gives: the component chosen by the
\* parent, with a title
SlotVNode(type) ==
  VNode(type, 0, Props([title |-> "a"]), "none", "", <<>>)

\* the name option of a component type, "" when it has none: CompA is
\* named, the other types are not
NameOf(type) == IF type = "CompA" THEN "A" ELSE ""

\* regex.test(name) for the regular expressions given as include and exclude
RegexTest(regex, name) ==
  CASE regex = "/A/" -> name \in {"A"}
    [] regex = "/X/" -> FALSE
    [] OTHER -> FALSE

\* a filter that sends a child without a name past the cache as well
kaBypassUnnamed(props, name) ==
  \/ name = ""
  \/ "include" \in DOMAIN props /\ ~RegexTest(props["include"], name)
  \/ "exclude" \in DOMAIN props /\ RegexTest(props["exclude"], name)

\* the test of keepalive.js 43-51 with the props of the KeepAlive: the child
\* is rendered directly, past the cache
kaBypass(props, name) ==
  /\ name # ""
  /\ \/ "include" \in DOMAIN props /\ ~RegexTest(props["include"], name)
     \/ "exclude" \in DOMAIN props /\ RegexTest(props["exclude"], name)

\* a KeepAlive render that never finds its child in the cache
kaRenderForgets(w, c) ==
  LET type == w.slot
      raw  == SlotVNode(type)
  IN IF Options(type).functional THEN [w |-> w, n |-> raw]
     ELSE IF kaBypass(w.insts[c].props, NameOf(type)) THEN [w |-> w, n |-> raw]
     ELSE [w |-> [w EXCEPT !.insts[c].cache = Put(@, type, 0)],
           n |-> [raw EXCEPT !.shouldKeepAlive = TRUE, !.keepAliveInstance = c]]

\* the render function KeepAlive's setup returns, keepalive.js 32-76, run by
\* instance c: a child already in the cache takes the cached vnode's
\* component and is marked keptAlive, any other is put into the cache (its
\* component is still undefined)
kaRender(w, c) ==
  LET type == w.slot
      raw  == SlotVNode(type)
      hit  == type \in DOMAIN w.insts[c].cache
  IN IF Options(type).functional THEN [w |-> w, n |-> raw]
     ELSE IF kaBypass(w.insts[c].props, NameOf(type)) THEN [w |-> w, n |-> raw]
     ELSE [w |-> IF hit THEN w ELSE [w EXCEPT !.insts[c].cache = Put(@, type, 0)],
           n |-> [raw EXCEPT !.component = IF hit THEN w.insts[c].cache[type] ELSE 0,
                             !.keptAlive = hit,
                             !.shouldKeepAlive = TRUE,
                             !.keepAliveInstance = c]]

\* render.call(renderContext, renderContext), quickDiff.js 384: one element
\* showing props.title and the state, or what KeepAlive's render returns
renderComp(w, c) ==
  IF Options(w.insts[c].type).isKeepAlive THEN kaRender(w, c)
  ELSE [w |-> w,
        n |-> VNode(Options(w.insts[c].type).tag, 0, NoProps, "text",
                    ToString(<<Get(w.insts[c].props, "title"), w.insts[c].state>>),
                    <<>>)]

RECURSIVE runHooks(_, _, _)
\* instance.mounted.forEach(hook => hook.call(renderContext)), quickDiff.js
\* 411: instance.mounted is modelled by its length
runHooks(w, c, i) ==
  IF i > w.insts[c].mounted THEN w
  ELSE runHooks(Ev(w, c, "hook"), c, i + 1)

\* the end of the effect function, quickDiff.js 393-425, after patch
effectDone(r, c, first) ==
  IF ~Ok(r.w) THEN r.w
  ELSE IF first
    THEN LET w1 == runHooks(Hook(Ev([r.w EXCEPT !.insts[c].isMounted = TRUE],
                                    c, "isMounted"),
                                 c, r.w.insts[c].type, "mounted"), c, 1)
         IN [w1 EXCEPT !.insts[c].subTree = r.n]
  ELSE LET w2 == Hook(r.w, c, r.w.insts[c].type, "updated")
       IN [w2 EXCEPT !.insts[c].subTree = r.n]

\* the effect function from its render on, quickDiff.js 384-425
effectPatch(r, c) ==
  IF ~Ok(r.w) THEN r.w
  ELSE IF ~r.w.insts[c].isMounted
    THEN effectDone(patch(Ev(Hook(r.w, c, r.w.insts[c].type, "beforeMount"),
                             c, "patch:none"),
                          NullV, r.n, r.w.insts[c].container, r.w.insts[c].anchor),
                    c, TRUE)
  ELSE effectDone(patch(Ev(Hook(r.w, c, r.w.insts[c].type, "beforeUpdate"),
                           c, "patch:prev"),
                        r.w.insts[c].subTree, r.n, r.w.insts[c].container,
                        r.w.insts[c].anchor),
                  c, FALSE)

\* one run of the effect function of instance c, quickDiff.js 382-426; a
\* render that is undefined cannot be called
runEffect(w, c) ==
  IF ~Ok(w) THEN w
  ELSE IF ~w.insts[c].render THEN Throw(w, "TypeError")
  ELSE effectPatch(renderComp(Ev([w EXCEPT !.insts[c].tracked = TRUE], c, "render"), c), c)

\* vnode.component = instance, quickDiff.js 345; the cache of a KeepAlive
\* holds this very vnode, so the cache sees the instance as well
link(w, c, vnode) ==
  IF vnode.shouldKeepAlive /\ ~vnode.keptAlive /\ vnode.keepAliveInstance # 0
    THEN [w EXCEPT !.insts[vnode.keepAliveInstance].cache = Put(@, vnode.type, c)]
  ELSE w

\* quickDiff.js 345-431: the instance is linked, created runs, the effect
\* runs once
mcEffect(w, c, vnode) ==
  [w |-> runEffect(Hook(link(w, c, vnode), c, vnode.type, "created"), c),
   n |-> [vnode EXCEPT !.component = c]]

\* quickDiff.js 331-343: the slot is cleared only when setup returned; a
\* function returned by setup is assigned to render, which is a const
mcAfterSetup(w, c, vnode) ==
  IF ~Ok(w) THEN [w |-> w, n |-> vnode]
  ELSE IF Options(vnode.type).setup = "keepalive"
    THEN IF w.nativeConst THEN [w |-> Throw([w EXCEPT !.cur = 0], "TypeError"), n |-> vnode]
         ELSE mcEffect([w EXCEPT !.cur = 0, !.insts[c].render = TRUE], c, vnode)
  ELSE mcEffect([w EXCEPT !.cur = 0], c, vnode)

\* KeepAlive's setup, keepalive.js 9-30: the storage container
kaSetup(r, c) == [r.w EXCEPT !.insts[c].storage = r.el]

\* setup(shallowReadonly(instance.props), setupContext), quickDiff.js 329,
\* called whether or not the options have a setup
mcSetup(w, c, vnode) ==
  LET kind == Options(vnode.type).setup
  IN IF kind = "none" THEN [w |-> Throw(w, "TypeError"), n |-> vnode]
     ELSE IF kind = "throws"
       THEN [w |-> Throw(Ev(w, c, "setup"), "Error"), n |-> vnode]
     ELSE IF kind = "hook"
       THEN mcAfterSetup(onMounted(Ev(w, c, "setup")), c, vnode)
     ELSE IF kind = "keepalive"
       THEN mcAfterSetup(kaSetup(createElement(Ev(w, c, "setup"), "div"), c), c, vnode)
     ELSE mcAfterSetup(Ev(w, c, "setup"), c, vnode)

\* quickDiff.js 273-327: the instance literal reads slots, declared by a
\* const further down (line 320); then the instance enters the slot
mcInstance(r, vnode, container, anchor) ==
  IF ~Ok(r.w) THEN [w |-> r.w, n |-> vnode]
  ELSE IF r.w.nativeConst THEN [w |-> Throw(r.w, "ReferenceError"), n |-> vnode]
  ELSE mcSetup([r.w EXCEPT !.insts = Append(@, NewInstance(vnode.type, r.props,
                                                           container, anchor)),
                           !.cur = Len(r.w.insts) + 1],
               Len(r.w.insts) + 1, vnode)

\* mountComponent(vnode, container, anchor), quickDiff.js 236-431
mountComponent(w, vnode, container, anchor) ==
  mcInstance(resolveProps(Hook(w, Len(w.insts) + 1, vnode.type, "beforeCreate"),
                          Options(vnode.type).props, vnode.props),
             vnode, container, anchor)

RECURSIVE writeProps(_, _, _, _), dropProps(_, _, _, _)
\* for (const k in nextProps) props[k] = nextProps[k], quickDiff.js 444-446
writeProps(w, c, nextProps, i) ==
  IF i > Len(KeyOrder) THEN w
  ELSE IF KeyOrder[i] \in DOMAIN nextProps
    THEN writeProps(setProp(w, c, KeyOrder[i], nextProps[KeyOrder[i]]), c, nextProps, i + 1)
  ELSE writeProps(w, c, nextProps, i + 1)

\* for (const k in props) if (!(k in nextProps)) delete props[k],
\* quickDiff.js 448-450
dropProps(w, c, nextProps, i) ==
  IF i > Len(KeyOrder) THEN w
  ELSE IF KeyOrder[i] \in DOMAIN w.insts[c].props /\ KeyOrder[i] \notin DOMAIN nextProps
    THEN dropProps(deleteProp(w, c, KeyOrder[i]), c, nextProps, i + 1)
  ELSE dropProps(w, c, nextProps, i + 1)

\* the body of the if of patchComponent, quickDiff.js 441-451
pcWrite(r, c) ==
  IF ~Ok(r.w) THEN r.w
  ELSE dropProps(writeProps(r.w, c, r.props, 1), c, r.props, 1)

\* a patchComponent that rewrites the props whether or not they changed
patchComponentAlways(w, n1, n2, anchor) ==
  IF ~Ok(w) THEN [w |-> w, n |-> n2]
  ELSE IF n1.component = 0
    THEN [w |-> Throw(w, "TypeError"), n |-> n2]
  ELSE IF ~n1.props.def \/ ~n2.props.def
    THEN [w |-> Throw(w, "TypeError"), n |-> [n2 EXCEPT !.component = n1.component]]
  ELSE [w |-> pcWrite(resolveProps(w, Options(n2.type).props, n2.props), n1.component),
        n |-> [n2 EXCEPT !.component = n1.component]]

\* patchComponent(n1, n2, anchor), quickDiff.js 434-452; Object.keys of an
\* undefined props object is a TypeError
patchComponent(w, n1, n2, anchor) ==
  IF ~Ok(w) THEN [w |-> w, n |-> n2]
  ELSE IF n1.component = 0
    THEN [w |-> Throw(w, "TypeError"), n |-> n2]
  ELSE IF ~n1.props.def \/ ~n2.props.def
    THEN [w |-> Throw(w, "TypeError"), n |-> [n2 EXCEPT !.component = n1.component]]
  ELSE IF hasPropsChanged(n1.props.map, n2.props.map)
    THEN [w |-> pcWrite(resolveProps(w, Options(n2.type).props, n2.props), n1.component),
          n |-> [n2 EXCEPT !.component = n1.component]]
  ELSE [w |-> w, n |-> [n2 EXCEPT !.component = n1.component]]

\* render(vnode, container), renderer.js 48-59, for a vnode that is not
\* null; root is container._vnode.  When patch throws, container._vnode is
\* not assigned.
render(w, root, vnode, container) ==
  LET r == patch(w, root, vnode, container, 0)
  IN [w |-> r.w, n |-> r.n, root |-> IF Ok(r.w) THEN r.n ELSE root]

(***************************************************************************)
(* The state after construction: an empty scheduler, an empty container.   *)
(***************************************************************************)
RendStart ==
  /\ dom = <<DomNode("root", "")>>
  /\ rootVNode = NullV
  /\ phase = "init"
  /\ ops = <<>>
  /\ err = ""
  /\ prevDom = <<DomNode("root", "")>>
  /\ prevVNode = NullV
  /\ branch = "none"
  /\ lastVNode = NullV

CompStart ==
  /\ insts = <<>>
  /\ currentInstance = 0
  /\ slot = "none"
  /\ events = <<>>
  /\ prevEvents = <<>>
  /\ prevInsts = <<>>
  /\ nSteps = 0
  /\ nRenders = 0

FunStart ==
  /\ fnArg = <<>>
  /\ fnRes = [done |-> FALSE, val |-> <<>>]

SchedStart ==
  /\ queue = <<>>
  /\ isFlushing = FALSE
  /\ scheduled = 0
  /\ cursor = 0
  /\ asked = <<>>
  /\ execLog = <<>>
  /\ begun = <<>>
  /\ lastAsked = <<>>
  /\ lastBatch = <<>>
  /\ lastExec = <<>>
  /\ lastThrew = 0
  /\ nCalls = 0
  /\ nFlushes = 0
  /\ owed = {}

(***************************************************************************)
(* Rendering a keyed list and then another one into the same container.    *)
(***************************************************************************)
\* number of distinct keys
NumKeys == 4
\* longest children array
MaxKids == 4
\* longest children array of the trees patched against trees of another shape
ShapeKids == 2
\* most steps of a run with components
MaxCompSteps == 5
\* most calls render(vnode, container) of a run with components
MaxRenders == 2
\* most calls of render, with a vnode or with null, on one container
MaxTopRenders == 3
\* most nodes mounted before one anchor
MaxAnchored == 2
\* most renders of a Teleport
MaxTpRenders == 3

Keys == 1..NumKeys

\* a keyed list item of each kind
Item(kind, k) ==
  IF kind = "Text" THEN VNode("Text", k, NoProps, "text", "x", <<>>)
  ELSE IF kind = "Fragment"
    THEN VNode("Fragment", k, NoProps, "list", "",
               <<VNode("p", 0, NoProps, "text", "x", <<>>)>>)
  ELSE VNode(kind, k, NoProps, "text", "x", <<>>)

ItemKinds == {"div", "span", "Text", "Fragment"}

\* the sequences of distinct keys of length n
KeySeqs(n) == {ks \in [1..n -> Keys] : \A i, k \in 1..n : i # k => ks[i] # ks[k]}

\* items with the given keys: all div, but for at most one item of another
\* kind at one of the places given
ItemLists(ks, places) ==
  {[i \in 1..Len(ks) |-> Item("div", ks[i])]}
    \cup {[i \in 1..Len(ks) |-> Item(IF i = odd THEN kind ELSE "div", ks[i])] :
            odd \in places \cap (1..Len(ks)), kind \in ItemKinds \ {"div"}}

\* the lists first rendered: keys 1..n in order, the first item of any kind
OldLists ==
  UNION {ItemLists([i \in 1..n |-> i], {1}) :
           n \in 0..(IF MaxKids < NumKeys THEN MaxKids ELSE NumKeys)}

\* the lists rendered next: any distinct keys in any order
NewLists ==
  UNION {UNION {ItemLists(ks, 1..MaxKids) : ks \in KeySeqs(n)} : n \in 0..MaxKids}

UL(items) == VNode("ul", 0, NoProps, "list", "", items)

World(prefer) ==
  [dom |-> dom, log |-> <<>>, err |-> "", strict |-> strict, prefer |-> prefer,
   sources |-> {}, branch |-> "none",
   insts |-> insts, cur |-> currentInstance, slot |-> slot,
   nativeConst |-> nativeConst, events |-> events,
   queue |-> queue, isFlushing |-> isFlushing, scheduled |-> scheduled]

\* the state a call render(vnode, RootEl) leaves
Rendered(r) ==
  /\ dom' = r.w.dom
  /\ ops' = r.w.log
  /\ err' = r.w.err
  /\ branch' = r.w.branch
  /\ rootVNode' = r.root
  /\ lastVNode' = r.n
  /\ prevDom' = dom
  /\ prevVNode' = rootVNode

\* the choices lis has in a render: the longest increasing subsequences of
\* the arrays the render passes to it
PreferChoices(r) == {{}} \cup UNION {LisCandidates(src) : src \in r.w.sources}

\* the first render(vnode, container): container._vnode is undefined
MountList ==
  /\ phase = "init"
  /\ \E items \in OldLists :
       Rendered(render(World({}), rootVNode, UL(items), RootEl))
  /\ phase' = "mounted"
  /\ UNCHANGED <<schedVars, strict, compVars, funVars>>

\* the second render(vnode, container), which reaches patchKeyedChildren
\* through patchElement and patchChildren
PatchList ==
  /\ phase = "mounted"
  /\ err = ""
  /\ \E items \in NewLists :
       \E prefer \in PreferChoices(render(World({}), rootVNode, UL(items), RootEl)) :
         Rendered(render(World(prefer), rootVNode, UL(items), RootEl))
  /\ phase' = "patched"
  /\ UNCHANGED <<schedVars, strict, compVars, funVars>>

DiffInit ==
  /\ SchedStart /\ RendStart /\ CompStart /\ FunStart
  /\ nativeConst = TRUE
  /\ strict \in BOOLEAN

DiffNext == MountList \/ PatchList

SpecDiff == DiffInit /\ [][DiffNext]_vars

(***************************************************************************)
(* Rendering a tree and then a structurally identical tree again.          *)
(***************************************************************************)
\* the children arrays of the trees: keys 1..n in order, one item of any kind
TreeLists ==
  UNION {ItemLists([i \in 1..n |-> i], 1..MaxKids) :
           n \in 0..(IF MaxKids < NumKeys THEN MaxKids ELSE NumKeys)}

\* the props of the root element: none, or one attribute
TreeProps == {NoProps, Props(Put(NoMap, "id", "a"))}

\* the trees rendered: an element without children, with text or with a keyed
\* list, a Text node, a Fragment
Trees ==
  {VNode("div", 0, pr, "none", "", <<>>) : pr \in TreeProps}
    \cup {VNode("div", 0, pr, "text", "x", <<>>) : pr \in TreeProps}
    \cup {VNode("div", 0, pr, "list", "", l) : pr \in TreeProps, l \in TreeLists}
    \cup {VNode("Text", 0, NoProps, "text", "x", <<>>)}
    \cup {VNode("Fragment", 0, NoProps, "list", "", l) : l \in TreeLists}

\* a new vnode tree describing the same tree: same types, keys, props and
\* children, no handle yet
RECURSIVE Clone(_)
Clone(v) ==
  [v EXCEPT !.el = 0, !.list = [i \in 1..Len(v.list) |-> Clone(v.list[i])]]

\* the first render(vnode, container)
MountTree ==
  /\ phase = "init"
  /\ \E t \in Trees : Rendered(render(World({}), rootVNode, t, RootEl))
  /\ phase' = "mounted"
  /\ UNCHANGED <<schedVars, strict, compVars, funVars>>

\* render(vnode, container) again with a clone of the tree mounted
PatchClone ==
  /\ phase = "mounted"
  /\ err = ""
  /\ Rendered(render(World({}), rootVNode, Clone(rootVNode), RootEl))
  /\ phase' = "patched"
  /\ UNCHANGED <<schedVars, strict, compVars, funVars>>

CloneInit ==
  /\ SchedStart /\ RendStart /\ CompStart /\ FunStart
  /\ nativeConst = TRUE
  /\ strict \in BOOLEAN

CloneNext == MountTree \/ PatchClone

SpecClone == CloneInit /\ [][CloneNext]_vars

(***************************************************************************)
(* Rendering a tree and then a tree of any other shape: another root type, *)
(* or the same element with children of another shape.                     *)
(***************************************************************************)
ShapeLists ==
  UNION {ItemLists([i \in 1..n |-> i], 1..ShapeKids) : n \in 0..ShapeKids}

ShapeTexts == {"x", "y"}

ShapeTrees ==
  {VNode(tag, 0, pr, "none", "", <<>>) : tag \in {"div", "span"}, pr \in TreeProps}
    \cup {VNode(tag, 0, pr, "text", t, <<>>) :
            tag \in {"div", "span"}, pr \in TreeProps, t \in ShapeTexts}
    \cup {VNode(tag, 0, pr, "list", "", l) :
            tag \in {"div", "span"}, pr \in TreeProps, l \in ShapeLists}
    \cup {VNode("Text", 0, NoProps, "text", t, <<>>) : t \in ShapeTexts}
    \cup {VNode("Fragment", 0, NoProps, "list", "", l) : l \in ShapeLists}

\* the first render(vnode, container)
MountShape ==
  /\ phase = "init"
  /\ \E t \in ShapeTrees : Rendered(render(World({}), rootVNode, t, RootEl))
  /\ phase' = "mounted"
  /\ UNCHANGED <<schedVars, strict, compVars, funVars>>

\* the second render(vnode, container), with any tree
PatchShape ==
  /\ phase = "mounted"
  /\ err = ""
  /\ \E t \in ShapeTrees : Rendered(render(World({}), rootVNode, t, RootEl))
  /\ phase' = "patched"
  /\ UNCHANGED <<schedVars, strict, compVars, funVars>>

ShapeInit ==
  /\ SchedStart /\ RendStart /\ CompStart /\ FunStart
  /\ nativeConst = TRUE
  /\ strict = TRUE

ShapeNext == MountShape \/ PatchShape

SpecShape == ShapeInit /\ [][ShapeNext]_vars

(***************************************************************************)
(* hasPropsChanged applied to two props objects.                           *)
(***************************************************************************)
CallHasPropsChanged ==
  /\ ~fnRes.done
  /\ fnRes' = [done |-> TRUE, val |-> hasPropsChanged(fnArg[1], fnArg[2])]
  /\ UNCHANGED <<schedVars, rendVars, compVars, fnArg>>

PropsInit ==
  /\ SchedStart /\ RendStart /\ CompStart
  /\ nativeConst = TRUE
  /\ strict = FALSE
  /\ fnArg \in AttrMaps \X AttrMaps
  /\ fnRes = [done |-> FALSE, val |-> <<>>]

PropsNext == CallHasPropsChanged

SpecProps == PropsInit /\ [][PropsNext]_vars

(***************************************************************************)
(* Components: renders of a root that may be a component, changes of the   *)
(* reactive values their renders read, flushes of the scheduler, calls of  *)
(* onMounted from outside any setup, and render(null, container).          *)
(***************************************************************************)
\* the props a parent passes to a root component
RootProps ==
  {NoProps, Props([title |-> "a"]), Props([id |-> "b"]), Props([title |-> "undefined"])}

\* the root vnodes rendered: CompA with any props, each other component
\* with a title, and a text node, an element and a Fragment
RootVNodes ==
  {VNode("CompA", 0, p, "none", "", <<>>) : p \in RootProps}
    \cup {VNode(t, 0, Props([title |-> "a"]), "none", "", <<>>) : t \in CompTypes \ {"CompA"}}
    \cup {VNode("Text", 0, NoProps, "text", "x", <<>>),
          VNode("div", 0, NoProps, "text", "x", <<>>),
          VNode("Fragment", 0, NoProps, "list", "",
                <<VNode("div", 0, NoProps, "text", "x", <<>>),
                  VNode("Text", 0, NoProps, "text", "y", <<>>)>>)}

\* the component types the default slot of KeepAlive can give
SlotTypes == {"CompA", "CompB"}

\* the state a step leaves, but for container._vnode
CompStepped(w) ==
  /\ dom' = w.dom
  /\ ops' = w.log
  /\ err' = w.err
  /\ branch' = w.branch
  /\ insts' = w.insts
  /\ currentInstance' = w.cur
  /\ events' = w.events
  /\ queue' = w.queue
  /\ isFlushing' = w.isFlushing
  /\ scheduled' = w.scheduled
  /\ prevDom' = dom
  /\ prevEvents' = events
  /\ prevInsts' = insts
  /\ prevVNode' = rootVNode
  /\ nSteps' = nSteps + 1

\* what a step with components leaves alone
CompFrame ==
  <<cursor, asked, execLog, begun, lastAsked, lastBatch, lastExec, lastThrew, nCalls,
    nFlushes, owed, strict, nativeConst, funVars>>

\* render(vnode, container), renderer.js 48-59, with a vnode
RenderedComp(r) ==
  /\ CompStepped(r.w)
  /\ rootVNode' = r.root
  /\ lastVNode' = r.n
  /\ nRenders' = nRenders + 1
  /\ UNCHANGED <<slot, CompFrame>>

\* the first render(vnode, container): container._vnode is undefined
MountComp ==
  /\ nSteps < MaxCompSteps
  /\ nRenders < MaxRenders
  /\ IsNull(rootVNode)
  /\ \E v \in RootVNodes : RenderedComp(render(World({}), rootVNode, v, RootEl))
  /\ phase' = "mount"

\* a later render(vnode, container): the parent patches the root
ParentPatch ==
  /\ nSteps < MaxCompSteps
  /\ nRenders < MaxRenders
  /\ ~IsNull(rootVNode)
  /\ \E v \in RootVNodes : RenderedComp(render(World({}), rootVNode, v, RootEl))
  /\ phase' = "patch"

\* the state of instance c is changed through its render context,
\* quickDiff.js 362-377: the effect that read it is handed to the scheduler
Mutate ==
  /\ nSteps < MaxCompSteps
  /\ \E c \in 1..Len(insts) :
       /\ insts[c].state >= 0
       /\ insts[c].tracked
       /\ CompStepped(trigger([World({}) EXCEPT !.insts[c].state = 1 - @], c, "state"))
  /\ phase' = "mutate"
  /\ UNCHANGED <<rootVNode, lastVNode, slot, nRenders, CompFrame>>

RECURSIVE triggerSlot(_, _)
\* every KeepAlive effect that read the slot is handed to the scheduler
triggerSlot(w, c) ==
  IF c > Len(w.insts) THEN w
  ELSE IF Options(w.insts[c].type).isKeepAlive
    THEN triggerSlot(trigger(w, c, "slot"), c + 1)
  ELSE triggerSlot(w, c + 1)

\* the reactive value the default slot of KeepAlive reads is changed: the
\* slot gives a child of another type from now on
Switch ==
  /\ nSteps < MaxCompSteps
  /\ \E c \in 1..Len(insts) : Options(insts[c].type).isKeepAlive /\ insts[c].tracked
  /\ \E t \in SlotTypes \ {slot} :
       /\ slot' = t
       /\ CompStepped(triggerSlot([World({}) EXCEPT !.slot = t], 1))
  /\ phase' = "switch"
  /\ UNCHANGED <<rootVNode, lastVNode, nRenders, CompFrame>>

RECURSIVE flushLoop(_, _)
\* queue.forEach(job => job()), queueJob.js 44: members added during the
\* iteration are visited as well; a job that throws ends it
flushLoop(w, i) ==
  IF i > Len(w.queue) \/ ~Ok(w) THEN w
  ELSE flushLoop(runEffect(w, w.queue[i]), i + 1)

\* the finally block of the flush callback, applied to the world
flushed(w) ==
  LET s == flushFinally([queue |-> w.queue, isFlushing |-> w.isFlushing,
                         scheduled |-> w.scheduled], ~Ok(w))
  IN [w EXCEPT !.queue = s.queue, !.isFlushing = s.isFlushing,
               !.scheduled = s.scheduled]

\* the flush callback, queueJob.js 42-51, with the effects as jobs
FlushJobs ==
  /\ nSteps < MaxCompSteps
  /\ scheduled > 0
  /\ CompStepped(flushed(flushLoop(World({}), 1)))
  /\ phase' = "flush"
  /\ UNCHANGED <<rootVNode, lastVNode, slot, nRenders, CompFrame>>

\* onMounted called by code that is not a setup function (a second call
\* right after one does the same again, and is left out)
HookOutside ==
  /\ nSteps < MaxCompSteps
  /\ phase # "hook"
  /\ CompStepped(onMounted(World({})))
  /\ phase' = "hook"
  /\ UNCHANGED <<rootVNode, lastVNode, slot, nRenders, CompFrame>>

\* container._vnode after render(null, container), renderer.js 58: reset
\* unless unmount threw
unmounted(w, root) == IF Ok(w) THEN NullV ELSE root

\* render(null, container), renderer.js 53-58
UnmountRoot ==
  /\ nSteps < MaxCompSteps
  /\ ~IsNull(rootVNode)
  /\ CompStepped(unmount(World({}), rootVNode))
  /\ rootVNode' = unmounted(unmount(World({}), rootVNode), rootVNode)
  /\ phase' = "unmount"
  /\ UNCHANGED <<lastVNode, slot, nRenders, CompFrame>>

CompInit ==
  /\ SchedStart /\ RendStart /\ FunStart
  /\ insts = <<>>
  /\ currentInstance = 0
  /\ slot \in SlotTypes
  /\ events = <<>>
  /\ prevEvents = <<>>
  /\ prevInsts = <<>>
  /\ nSteps = 0
  /\ nRenders = 0
  /\ nativeConst \in BOOLEAN
  /\ strict = TRUE

CompNext ==
  MountComp \/ ParentPatch \/ Mutate \/ Switch \/ FlushJobs \/ HookOutside \/ UnmountRoot

SpecComp == CompInit /\ [][CompNext]_vars

(***************************************************************************)
(* Any sequence of calls render(vnode, container) and render(null,         *)
(* container) on one container, renderer.js 48-59.                         *)
(***************************************************************************)
\* the trees rendered: a text node, elements with and without props, a
\* Fragment, and two keyed lists
TopTrees ==
  {VNode("Text", 0, NoProps, "text", "x", <<>>),
   VNode("div", 0, NoProps, "text", "x", <<>>),
   VNode("div", 0, Props([id |-> "a"]), "text", "y", <<>>),
   VNode("span", 0, NoProps, "none", "", <<>>),
   VNode("Fragment", 0, NoProps, "list", "",
         <<VNode("div", 0, NoProps, "text", "x", <<>>),
           VNode("Text", 0, NoProps, "text", "y", <<>>)>>),
   UL(<<Item("div", 1), Item("div", 2)>>),
   UL(<<Item("div", 2), Item("div", 1), Item("div", 3)>>)}

\* render(vnode, container) with a vnode
TopRender ==
  /\ nRenders < MaxTopRenders
  /\ \E v \in TopTrees : Rendered(render(World({}), rootVNode, v, RootEl))
  /\ nRenders' = nRenders + 1
  /\ phase' = "render"
  /\ UNCHANGED <<schedVars, strict, insts, currentInstance, slot, nativeConst, events,
                 prevEvents, prevInsts, nSteps, funVars>>

\* render(null, container), renderer.js 51-58: unmount when container._vnode
\* is set
renderNull(w, root) == IF IsNull(root) THEN w ELSE unmount(w, root)

\* render(null, container)
TopClear ==
  /\ nRenders < MaxTopRenders
  /\ dom' = renderNull(World({}), rootVNode).dom
  /\ ops' = renderNull(World({}), rootVNode).log
  /\ err' = renderNull(World({}), rootVNode).err
  /\ rootVNode' = unmounted(renderNull(World({}), rootVNode), rootVNode)
  /\ lastVNode' = NullV
  /\ prevDom' = dom
  /\ prevVNode' = rootVNode
  /\ nRenders' = nRenders + 1
  /\ phase' = "clear"
  /\ UNCHANGED <<schedVars, strict, branch, insts, currentInstance, slot, nativeConst,
                 events, prevEvents, prevInsts, nSteps, funVars>>

TopInit ==
  /\ SchedStart /\ RendStart /\ CompStart /\ FunStart
  /\ nativeConst = TRUE
  /\ strict = TRUE

TopNext == TopRender \/ TopClear

SpecTop == TopInit /\ [][TopNext]_vars

(***************************************************************************)
(* patch(null, n, container, anchor) with an anchor: a node is rendered    *)
(* into the container, and others are mounted before it, as                *)
(* patchKeyedChildren does for new items (quickDiff.js 122-131, 225).      *)
(***************************************************************************)
\* the nodes mounted before the anchor: one of each kind
AnchorTrees ==
  {VNode("div", 0, NoProps, "text", "x", <<>>),
   VNode("Text", 0, NoProps, "text", "x", <<>>),
   VNode("Fragment", 0, NoProps, "list", "",
         <<VNode("p", 0, NoProps, "text", "x", <<>>),
           VNode("span", 0, NoProps, "none", "", <<>>)>>),
   VNode("Fragment", 0, NoProps, "list", "", <<>>),
   VNode("CompA", 0, Props([title |-> "a"]), "none", "", <<>>),
   VNode("CompB", 0, Props([title |-> "a"]), "none", "", <<>>)}

\* the node that serves as anchor is rendered
MountAnchor ==
  /\ phase = "init"
  /\ \E v \in {VNode("div", 0, NoProps, "text", "x", <<>>),
               VNode("span", 0, NoProps, "none", "", <<>>),
               VNode("Text", 0, NoProps, "text", "y", <<>>)} :
       Rendered(render(World({}), rootVNode, v, RootEl))
  /\ phase' = "anchor"
  /\ UNCHANGED <<schedVars, strict, compVars, funVars>>

\* the state patch(null, n, container, anchor) leaves
Anchored(r) ==
  /\ dom' = r.w.dom
  /\ ops' = r.w.log
  /\ err' = r.w.err
  /\ branch' = r.w.branch
  /\ lastVNode' = r.n
  /\ insts' = r.w.insts
  /\ currentInstance' = r.w.cur
  /\ events' = r.w.events
  /\ prevDom' = dom
  /\ prevInsts' = insts
  /\ prevEvents' = events

\* patch(null, n, container, anchor), the anchor being the node rendered
PatchBefore ==
  /\ phase \in {"anchor", "anchored"}
  /\ err = ""
  /\ nSteps < MaxAnchored
  /\ \E v \in AnchorTrees : Anchored(patch(World({}), NullV, v, RootEl, rootVNode.el))
  /\ nSteps' = nSteps + 1
  /\ phase' = "anchored"
  /\ UNCHANGED <<schedVars, rootVNode, prevVNode, strict, slot, nativeConst, nRenders,
                 funVars>>

AnchorInit ==
  /\ SchedStart /\ RendStart /\ CompStart /\ FunStart
  /\ nativeConst \in BOOLEAN
  /\ strict = TRUE

AnchorNext == MountAnchor \/ PatchBefore

SpecAnchor == AnchorInit /\ [][AnchorNext]_vars

(***************************************************************************)
(* The render context of a component instance, quickDiff.js 350-384: reads *)
(* and writes of names through the proxy of the instance.                  *)
(***************************************************************************)
\* the names kept in the stores, and the names read and written
CtxKeys == {"a", "b"}
CtxNames == CtxKeys \cup {"z", "$slots"}

\* a store that is null or undefined (NoProps), or an object with some of
\* the keys, each holding the value given
CtxStores(val) == {Props([k \in ks |-> val]) : ks \in SUBSET CtxKeys}

\* state && k in state, setupState && k in setupState
InStore(store, k) == store.def /\ k \in DOMAIN store.map

\* the get trap, quickDiff.js 351-367, on the instance t
ctxGet(t, k) ==
  IF k = "$slots" THEN [ret |-> "slots", diag |-> ""]
  ELSE IF InStore(t.state, k) THEN [ret |-> t.state.map[k], diag |-> ""]
  ELSE IF k \in DOMAIN t.props.map THEN [ret |-> t.props.map[k], diag |-> ""]
  ELSE IF InStore(t.setupState, k) THEN [ret |-> t.setupState.map[k], diag |-> ""]
  ELSE [ret |-> "undefined", diag |-> "error"]

\* the set trap, quickDiff.js 368-381.  A proxy calls it with (target, key,
\* value, receiver): the parameter the code names r is the value written and
\* the one it names v, which it stores, is the receiver.
ctxSet(t, k, r, v) ==
  IF InStore(t.state, k) THEN [t |-> [t EXCEPT !.state.map[k] = v], diag |-> ""]
  ELSE IF k \in DOMAIN t.props.map THEN [t |-> t, diag |-> "warn"]
  ELSE IF InStore(t.setupState, k) THEN [t |-> [t EXCEPT !.setupState.map[k] = v], diag |-> ""]
  ELSE [t |-> t, diag |-> "error"]

\* renderContext[k] is read
CtxRead ==
  /\ \E k \in CtxNames :
       fnRes' = [done |-> TRUE,
                 val |-> [op |-> "get", k |-> k, v |-> "", ret |-> ctxGet(fnArg, k).ret,
                          diag |-> ctxGet(fnArg, k).diag, before |-> fnArg]]
  /\ UNCHANGED <<schedVars, rendVars, compVars, fnArg>>

\* renderContext[k] = "w"
CtxWrite ==
  /\ \E k \in CtxNames :
       /\ fnArg' = ctxSet(fnArg, k, "w", "renderContext").t
       /\ fnRes' = [done |-> TRUE,
                    val |-> [op |-> "set", k |-> k, v |-> "w", ret |-> "true",
                             diag |-> ctxSet(fnArg, k, "w", "renderContext").diag,
                             before |-> fnArg]]
  /\ UNCHANGED <<schedVars, rendVars, compVars>>

\* the instance when its proxy is built: state is null without a data
\* option, setupState is undefined when setup returns nothing
CtxInit ==
  /\ SchedStart /\ RendStart /\ CompStart
  /\ nativeConst = FALSE
  /\ strict = TRUE
  /\ fnArg \in [state : CtxStores("s") \cup {NoProps}, props : CtxStores("p"),
                setupState : CtxStores("u") \cup {NoProps}]
  /\ fnRes = [done |-> FALSE, val |-> <<>>]

CtxNext == CtxRead \/ CtxWrite

SpecCtx == CtxInit /\ [][CtxNext]_vars

(***************************************************************************)
(* A KeepAlive with include and exclude: it is rendered as the root, its   *)
(* slot is switched between a named and an unnamed child, the scheduler    *)
(* flushes.                                                                *)
(***************************************************************************)
\* the props given to the KeepAlive
FilterProps ==
  {Props([include |-> "/A/"]), Props([include |-> "/X/"]), Props([exclude |-> "/A/"]),
   Props([exclude |-> "/X/"]), Props([include |-> "/A/", exclude |-> "/A/"])}

\* render(h(KeepAlive, props, slots), container) into the empty container
MountFiltered ==
  /\ nSteps < MaxCompSteps
  /\ IsNull(rootVNode)
  /\ \E p \in FilterProps :
       RenderedComp(render(World({}), rootVNode, VNode("KeepAlive", 0, p, "none", "", <<>>),
                           RootEl))
  /\ phase' = "mount"

FilterInit ==
  /\ CompInit
  /\ ~nativeConst

FilterNext == MountFiltered \/ Switch \/ FlushJobs \/ Mutate

SpecFilter == FilterInit /\ [][FilterNext]_vars

(***************************************************************************)
(* A Teleport rendered as the root, again and again, into a document that  *)
(* holds two destinations beside the container.                            *)
(***************************************************************************)
\* the destinations: the elements with id t1 and t2
Target(id) == [DomNode("div", "") EXCEPT !.attrs = [id |-> id]]

\* the children given to the Teleport: keyed elements, one list with a text
TpLists ==
  {<<Item("div", 1)>>,
   <<Item("div", 1), Item("div", 2)>>,
   <<Item("div", 2), Item("div", 1)>>,
   <<Item("div", 2), Item("div", 1), Item("div", 3)>>,
   <<Item("Text", 2), Item("div", 1)>>}

TpTrees ==
  {VNode("Teleport", 0, Props([to |-> to]), "list", "", l) :
     to \in {"#t1", "#t2"}, l \in TpLists}

\* the first render of a Teleport, and any render while none was mounted
TpMount ==
  /\ nRenders < MaxTpRenders
  /\ IsNull(rootVNode)
  /\ \E v \in TpTrees : Rendered(render(World({}), rootVNode, v, RootEl))
  /\ nRenders' = nRenders + 1
  /\ phase' = "mount"
  /\ UNCHANGED <<schedVars, strict, insts, currentInstance, slot, nativeConst, events,
                 prevEvents, prevInsts, nSteps, funVars>>

\* a later render: the Teleport is updated
TpUpdate ==
  /\ nRenders < MaxTpRenders
  /\ ~IsNull(rootVNode)
  /\ \E v \in TpTrees : Rendered(render(World({}), rootVNode, v, RootEl))
  /\ nRenders' = nRenders + 1
  /\ phase' = "update"
  /\ UNCHANGED <<schedVars, strict, insts, currentInstance, slot, nativeConst, events,
                 prevEvents, prevInsts, nSteps, funVars>>

TpInit ==
  /\ SchedStart /\ CompStart /\ FunStart
  /\ dom = <<DomNode("root", ""), Target("t1"), Target("t2")>>
  /\ prevDom = dom
  /\ rootVNode = NullV
  /\ prevVNode = NullV
  /\ lastVNode = NullV
  /\ phase = "init"
  /\ ops = <<>>
  /\ err = ""
  /\ branch = "none"
  /\ nativeConst = TRUE
  /\ strict \in BOOLEAN

TpNext == TpMount \/ TpUpdate

SpecTeleport == TpInit /\ [][TpNext]_vars

(***************************************************************************)
(* lis applied to a source array, as quickDiff.js 194 calls it.            *)
(***************************************************************************)
\* the source array of the spec's example
LisExample == <<2, -1, 3, 1, 5, 0>>

\* the source arrays the move pass can build: each entry -1 or the index of
\* an old child, no index twice
SourceArrays ==
  {LisExample} \cup
  UNION {{src \in [1..n -> (-1)..(NumKeys - 1)] :
            \A i, k \in 1..n : (i # k /\ src[i] # -1) => src[i] # src[k]} :
         n \in 0..MaxKids}

\* const seq = lis(source), quickDiff.js 194
CallLis ==
  /\ ~fnRes.done
  /\ \E prefer \in {{}} \cup LisCandidates(fnArg) :
       fnRes' = [done |-> TRUE, val |-> lis(fnArg, prefer)]
  /\ UNCHANGED <<schedVars, rendVars, compVars, fnArg>>

LisInit ==
  /\ SchedStart /\ RendStart /\ CompStart
  /\ nativeConst = TRUE
  /\ strict = FALSE
  /\ fnArg \in SourceArrays
  /\ fnRes = [done |-> FALSE, val |-> <<>>]

LisNext == CallLis

SpecLis == LisInit /\ [][LisNext]_vars

SchedInit ==
  /\ SchedStart /\ RendStart /\ CompStart /\ FunStart
  /\ nativeConst = TRUE
  /\ strict = FALSE

SchedNext ==
  \/ \E job \in Jobs : QueueJob(job)
  \/ \E nested \in {0} \cup Jobs, throws \in BOOLEAN : FlushStep(nested, throws)

SpecSched == SchedInit /\ [][SchedNext]_vars

(***************************************************************************)
(* Claims about the scheduler.                                             *)
(***************************************************************************)
\* the members of s in the order of their first occurrence
RECURSIVE Dedup(_)
Dedup(s) ==
  IF s = <<>> THEN <<>>
  ELSE LET front == Dedup(SubSeq(s, 1, Len(s) - 1))
       IN SetAdd(front, s[Len(s)])

\* C2: a job passed to queueJob any number of times before the flush runs is
\* executed exactly once by that flush.
C2_ExactlyOnePerFlush ==
  nFlushes > 0 => \A j \in Range(lastAsked) : Count(j, lastExec) = 1

\* C3: the jobs enqueued before the flush all run in that flush, in the order
\* of their first enqueue.
C3_FirstEnqueueOrder ==
  nFlushes > 0 =>
    /\ Len(lastExec) >= Len(Dedup(lastAsked))
    /\ SubSeq(lastExec, 1, Len(Dedup(lastAsked))) = Dedup(lastAsked)

\* C4: when a job throws during a flush, the jobs queued after it in that
\* batch are still executed by that flush.
C4_RestRunAfterThrow ==
  (nFlushes > 0 /\ lastThrew > 0) =>
    \A i \in (lastThrew + 1)..Len(lastBatch) :
      lastBatch[i] \in Range(lastAsked) => lastBatch[i] \in Range(lastExec)

\* C5: when no flush callback is registered the flag is false and the queue is
\* empty, whether the last flush succeeded or threw, and the flag is true only
\* while a flush callback is registered; so the next queueJob registers one.
C5_FlushAlwaysResets ==
  /\ scheduled = 0 => (isFlushing = FALSE /\ queue = <<>>)
  /\ isFlushing => scheduled > 0

\* a flush in which a job threw has ended and a later queueJob has registered
\* a new flush
C5_Witness ==
  /\ nFlushes > 0
  /\ lastThrew > 0
  /\ Len(lastBatch) > lastThrew
  /\ cursor = 0
  /\ scheduled = 1
  /\ isFlushing
  /\ queue # <<>>

\* what holds of the scheduler in every state
SchedulerState ==
  /\ queue # <<>> => isFlushing
  /\ isFlushing <=> scheduled = 1
  /\ scheduled \in {0, 1}

\* what holds of every step: the flag rises only with a call of queueJob and
\* falls only when a flush ends, with the queue emptied
SchedulerStep ==
  /\ (~isFlushing /\ isFlushing') => (nCalls' = nCalls + 1 /\ queue' # <<>>)
  /\ (isFlushing /\ ~isFlushing') => (nFlushes' = nFlushes + 1 /\ queue' = <<>>)

\* C24: the queue is non-empty only while isFlushing is true; isFlushing is
\* true exactly while one flush callback is registered and not finished, and
\* never more than one is; the flag becomes true only on an enqueue and false
\* only at the end of a flush, together with the queue being cleared.
C24_SchedulerInvariant == []SchedulerState /\ [][SchedulerStep]_vars

\* after a first flush has ended, two jobs wait for the one registered flush
C24_Witness ==
  /\ nFlushes > 0
  /\ cursor = 0
  /\ scheduled = 1
  /\ isFlushing
  /\ Len(queue) >= 2

\* the flush callback, once registered, runs to its end: the microtask queue
\* is drained after every synchronous turn
SpecSchedLive ==
  SchedInit /\ [][SchedNext]_vars
    /\ WF_vars(\E nested \in {0} \cup Jobs, throws \in BOOLEAN : FlushStep(nested, throws))

\* C25: every call queueJob(job), from a synchronous turn or from a job
\* running in a flush, is eventually followed by a start of job.
C25_NoLostUpdate == \A j \in Jobs : (j \in owed) ~> (j \notin owed)

(***************************************************************************)
(* Claims about the keyed-list reconciler, read off the two renders of     *)
(* SpecDiff: prevVNode is the old ul with its mounted children, lastVNode   *)
(* the new ul as patchKeyedChildren left it.                               *)
(***************************************************************************)
OldItems == prevVNode.list

NewItems == lastVNode.list

KeysOf(list) == {list[i].key : i \in 1..Len(list)}

\* the platform handles of a list of vnodes, in order; a Fragment stands for
\* the handles of its children
RECURSIVE Handles(_)
Handles(list) ==
  IF list = <<>> THEN <<>>
  ELSE (IF list[1].type = "Fragment" THEN Handles(list[1].list) ELSE <<list[1].el>>)
         \o Handles(Tail(list))

\* the children of the ul after the second render
ListKids == dom[prevVNode.el].kids

\* list a is a proper prefix of list b: same keys and types, b is longer
IsProperPrefix(a, b) ==
  /\ Len(a) < Len(b)
  /\ \A i \in 1..Len(a) : a[i].key = b[i].key /\ a[i].type = b[i].type

AllDiv(list) == \A i \in 1..Len(list) : list[i].type = "div"

\* the primitives of the last render named name
OpsNamed(name) == SelectSeq(ops, LAMBDA o : o.op = name)

\* the moves of the last render: insert called on a handle that had a parent
Moves == SelectSeq(ops, LAMBDA o : o.op = "insert" /\ o.was # 0)

\* the inserts of the last render into the ul
InsertsIntoList == SelectSeq(ops, LAMBDA o : o.op = "insert" /\ o.parent = prevVNode.el)

\* C1: after patchKeyedChildren the children of the container are exactly the
\* handles of the new items, in the order of the new list, for every pair of
\* old and new keyed lists.
C1_FinalOrder ==
  phase = "patched" =>
    /\ err = ""
    /\ ListKids = Handles(NewItems)
    /\ \A i \in 1..Len(NewItems) : Handles(<<NewItems[i]>>) # <<>>

\* C6: in the general case every new item whose key no old item has is
\* mounted into the container, whether or not a move was found necessary.
C6_UnmatchedMounted ==
  (phase = "patched" /\ err = "" /\ branch = "general") =>
    \A i \in 1..Len(NewItems) :
      NewItems[i].key \notin KeysOf(OldItems) =>
        /\ Handles(<<NewItems[i]>>) # <<>>
        /\ Range(Handles(<<NewItems[i]>>)) \subseteq Range(ListKids)

\* C7: when the old list is a proper prefix of the new one the patch
\* completes, the extra items are mounted in ascending order at the end of
\* the container, and nothing is moved or unmounted.
C7_AppendOnly ==
  (phase = "patched" /\ IsProperPrefix(OldItems, NewItems)) =>
    /\ err = ""
    /\ ListKids = Handles(NewItems)
    /\ [i \in 1..Len(InsertsIntoList) |-> InsertsIntoList[i].el]
         = Handles(SubSeq(NewItems, Len(OldItems) + 1, Len(NewItems)))
    /\ \A i \in 1..Len(InsertsIntoList) : InsertsIntoList[i].anchor = 0
    /\ Moves = <<>>
    /\ OpsNamed("removeChild") = <<>>

\* C8: when the new list is a proper prefix of the old one the patch
\* completes, exactly the old items beyond the new list are unmounted, and
\* nothing is mounted or moved.
C8_RemoveOnly ==
  (phase = "patched" /\ IsProperPrefix(NewItems, OldItems)) =>
    /\ err = ""
    /\ ListKids = Handles(NewItems)
    /\ [i \in 1..Len(OpsNamed("removeChild")) |-> OpsNamed("removeChild")[i].el]
         = Handles(SubSeq(OldItems, Len(NewItems) + 1, Len(OldItems)))
    /\ OpsNamed("insert") = <<>>
    /\ OpsNamed("createElement") = <<>>
    /\ OpsNamed("createText") = <<>>

\* source[i] for the whole new list: the old index of the new item at i, or -1
WholeSource ==
  [i \in 1..Len(NewItems) |->
     IF NewItems[i].key \in KeysOf(OldItems)
       THEN (CHOOSE k \in 1..Len(OldItems) : OldItems[k].key = NewItems[i].key) - 1
     ELSE -1]

\* number of new items that an old item matches by key
Matched == Cardinality({i \in 1..Len(NewItems) : WholeSource[i] # -1})

\* length of a longest strictly increasing subsequence of the old indices;
\* the common prefix and suffix belong to every longest one
LisLen == Cardinality(CHOOSE c \in LisCandidates(WholeSource) : TRUE)

\* length of the common prefix of the two key sequences
RECURSIVE CommonPrefix(_, _)
CommonPrefix(a, b) ==
  IF a = <<>> \/ b = <<>> \/ a[1].key # b[1].key THEN 0
  ELSE 1 + CommonPrefix(Tail(a), Tail(b))

\* C9: in the general case the moves number the matched items less the length
\* of a longest increasing subsequence of their old indices, and no item of
\* the common prefix is moved.
C9_MinimalMoves ==
  (phase = "patched" /\ branch = "general" /\ AllDiv(OldItems) /\ AllDiv(NewItems)) =>
    /\ Len(Moves) = Matched - LisLen
    /\ \A i \in 1..Len(Moves) :
         Moves[i].el \notin Range(Handles(SubSeq(OldItems, 1,
                                                 CommonPrefix(OldItems, NewItems))))


(***************************************************************************)
(* Claims about patching a tree against its clone, read off SpecClone.     *)
(***************************************************************************)
\* C10: rendering a clone of the mounted tree completes, calls no create,
\* insert or remove primitive, leaves the platform tree as it was, and
\* leaves every node of the clone with the handle of the node it mirrors.
C10_Idempotent ==
  phase = "patched" =>
    /\ err = ""
    /\ OpsNamed("createElement") = <<>>
    /\ OpsNamed("createText") = <<>>
    /\ OpsNamed("insert") = <<>>
    /\ OpsNamed("removeChild") = <<>>
    /\ dom = prevDom
    /\ lastVNode = prevVNode

(***************************************************************************)
(* Claims about lis, read off SpecLis.                                     *)
(***************************************************************************)
\* length of the longest strictly increasing run of the entries of src that
\* are not -1 and exceed floor, from position i on
RECURSIVE LongestFrom(_, _, _)
LongestFrom(src, i, floor) ==
  IF i > Len(src) THEN 0
  ELSE LET skip == LongestFrom(src, i + 1, floor)
           take == IF src[i] # -1 /\ src[i] > floor
                     THEN 1 + LongestFrom(src, i + 1, src[i])
                   ELSE 0
       IN IF take > skip THEN take ELSE skip

\* C13: lis(source) returns positions of source in ascending order whose
\* values strictly increase, none of them -1, as many as the longest strictly
\* increasing subsequence of the values that are not -1; 3 for the example.
C13_LisIsLongest ==
  fnRes.done =>
    LET seq == fnRes.val IN
    /\ \A i \in 1..Len(seq) : seq[i] \in 0..(Len(fnArg) - 1)
    /\ \A i \in 1..Len(seq) : fnArg[seq[i] + 1] # -1
    /\ \A i \in 1..(Len(seq) - 1) :
         seq[i] < seq[i + 1] /\ fnArg[seq[i] + 1] < fnArg[seq[i + 1] + 1]
    /\ Len(seq) = LongestFrom(fnArg, 1, -1)
    /\ fnArg = LisExample => Len(seq) = 3

\* lis has returned for the example
C13_Witness ==
  /\ fnRes.done
  /\ fnArg = LisExample
  /\ Len(fnRes.val) = 3

(***************************************************************************)
(* Claims about patch and patchChildren, read off the two renders of       *)
(* SpecShape: prevVNode is the old root as mounted, lastVNode the new one. *)
(***************************************************************************)
\* positions in ops of the primitives named in names
OpsAt(names) == {i \in 1..Len(ops) : ops[i].op \in names}

\* the handles removed by the last render, in order
Removed == [i \in 1..Len(OpsNamed("removeChild")) |-> OpsNamed("removeChild")[i].el]

\* C14: when the old and the new root differ in type, the old root's handles
\* are all removed before anything of the new root is created, the new root
\* is mounted as on an empty container, and its handles are new ones.
C14_TypeChangeReplaces ==
  (phase = "patched" /\ prevVNode.type # lastVNode.type) =>
    /\ err = ""
    /\ Removed = Handles(<<prevVNode>>)
    /\ \A i \in OpsAt({"removeChild"}), k \in OpsAt({"createElement", "createText"}) :
         i < k
    /\ \A h \in Range(Handles(<<prevVNode>>)) : dom[h].parent = 0
    /\ dom[RootEl].kids = Handles(<<lastVNode>>)
    /\ \A h \in Range(Handles(<<lastVNode>>)) : h > Len(prevDom)

\* an element root with children was replaced by a Text root
C14_Witness ==
  /\ phase = "patched"
  /\ err = ""
  /\ prevVNode.type = "div"
  /\ prevVNode.ck = "list"
  /\ Len(prevVNode.list) = ShapeKids
  /\ lastVNode.type = "Text"
  /\ lastVNode.el > Len(prevDom)

\* the element whose children patchChildren patches in the last render
ShapeEl == prevVNode.el

\* patchElement got through its two props loops to patchChildren, patch.js
\* 216-228: neither loop read a key of an undefined props object
PropsPatched == prevVNode.props.def = lastVNode.props.def

\* C15: patchChildren on an element, for each of the nine pairs of old and
\* new children shape: new text unmounts an old list and sets the text; new
\* list against old list calls the keyed reconciler; new list against old
\* text or none clears the text and mounts the new children in order; no new
\* children unmounts an old list, clears an old text, and calls no primitive
\* when there were none.
C15_NineShapes ==
  (phase = "patched" /\ prevVNode.type = lastVNode.type /\ lastVNode.type \in Tags
     /\ PropsPatched) =>
    /\ lastVNode.ck = "text" =>
         /\ err = ""
         /\ Removed = (IF prevVNode.ck = "list" THEN Handles(prevVNode.list) ELSE <<>>)
         /\ dom[ShapeEl].text = lastVNode.text
         /\ dom[ShapeEl].kids = <<>>
         /\ OpsAt({"setElementText"}) # {}
         /\ OpsAt({"createElement", "createText", "insert"}) = {}
    /\ (lastVNode.ck = "list" /\ prevVNode.ck = "list") => branch # "none"
    /\ (lastVNode.ck = "list" /\ prevVNode.ck # "list") =>
         /\ err = ""
         /\ branch = "none"
         /\ Removed = <<>>
         /\ dom[ShapeEl].text = ""
         /\ dom[ShapeEl].kids = Handles(lastVNode.list)
         /\ [i \in 1..Len(SelectSeq(ops, LAMBDA o : o.op = "insert" /\ o.parent = ShapeEl))
               |-> SelectSeq(ops, LAMBDA o : o.op = "insert" /\ o.parent = ShapeEl)[i].el]
              = Handles(lastVNode.list)
         /\ \A i \in OpsAt({"setElementText"}), k \in OpsAt({"createElement", "createText"}) :
              ops[i].el = ShapeEl => i < k
         /\ \E i \in OpsAt({"setElementText"}) : ops[i].el = ShapeEl
    /\ lastVNode.ck = "none" =>
         /\ err = ""
         /\ OpsAt({"createElement", "createText", "insert"}) = {}
         /\ dom[ShapeEl].kids = <<>>
         /\ dom[ShapeEl].text = ""
         /\ prevVNode.ck = "list" => Removed = Handles(prevVNode.list)
         /\ prevVNode.ck = "text" => OpsAt({"setElementText"}) # {}
         /\ prevVNode.ck = "none" => OpsAt({"removeChild", "setElementText"}) = {}

\* an element with a list of children was patched to one with text, and one
\* with text to one without children
C15_Witness ==
  /\ phase = "patched"
  /\ err = ""
  /\ prevVNode.type = "div"
  /\ lastVNode.type = "div"
  /\ prevVNode.ck = "text"
  /\ lastVNode.ck = "none"
  /\ dom[ShapeEl].text = ""
  /\ prevDom[ShapeEl].text # ""

(***************************************************************************)
(* Claims about hasPropsChanged, read off SpecProps.                       *)
(***************************************************************************)
\* C17: hasPropsChanged returns true whenever the two props objects differ in
\* their keys or in the value of a common key, and false when they have the
\* same keys with the same values.
C17_NoMissedChange ==
  fnRes.done =>
    (fnRes.val <=>
       (\/ DOMAIN fnArg[1] # DOMAIN fnArg[2]
        \/ \E k \in DOMAIN fnArg[1] \cap DOMAIN fnArg[2] : fnArg[1][k] # fnArg[2][k]))

(***************************************************************************)
(* Claims about components, read off SpecComp.  Every step is a whole      *)
(* synchronous call, so no state lies inside a setup call.                 *)
(***************************************************************************)
\* C19: outside a setup call currentInstance is null, whichever way the last
\* mountComponent was left (setup throwing included), and a call of
\* onMounted from outside a setup changes no instance and only reports a
\* diagnostic.
C19_SlotNullOutsideSetup ==
  /\ currentInstance = 0
  /\ phase = "hook" =>
       /\ err = ""
       /\ insts = prevInsts
       /\ events = Append(prevEvents, [c |-> 0, ev |-> "diagnostic"])

\* the lifecycle events of instance c so far, in order
InstEvents(c) ==
  SelectSeq(events, LAMBDA e : e.c = c /\ e.ev \notin {"set", "delete", "queueJob"})

\* the events of instance c in the last step
StepEvents(c) ==
  SelectSeq(SubSeq(events, Len(prevEvents) + 1, Len(events)), LAMBDA e : e.c = c)

\* the events of c among the names given, in the order given
Named(c, names, hooks) ==
  [i \in 1..Len(SelectSeq(names, LAMBDA n : n \notin {"beforeCreate", "created",
                                      "beforeMount", "mounted", "beforeUpdate",
                                      "updated"} \/ hooks)) |->
     [c |-> c, ev |-> SelectSeq(names, LAMBDA n : n \notin {"beforeCreate", "created",
                                      "beforeMount", "mounted", "beforeUpdate",
                                      "updated"} \/ hooks)[i]]]

\* what the claim expects of an instance up to the end of its first run (a
\* component that declares no hook contributes none)
MountSeq(c, hooks) ==
  Named(c, <<"beforeCreate", "setup", "created", "render", "beforeMount", "patch:none",
             "isMounted", "mounted">>, hooks)

\* what the claim expects of a later run
UpdateSeq(c, hooks) ==
  Named(c, <<"render", "beforeUpdate", "patch:prev", "updated">>, hooks)

RECURSIVE Runs(_, _, _)
Runs(c, hooks, k) ==
  IF k = 0 THEN MountSeq(c, hooks) ELSE Runs(c, hooks, k - 1) \o UpdateSeq(c, hooks)

IsPrefixOf(a, b) == Len(a) <= Len(b) /\ a = SubSeq(b, 1, Len(a))

\* the events of every instance so far follow the order of the claim
InOrder ==
  \A c \in 1..Len(insts) :
    \E k \in 0..MaxCompSteps + 1 :
      IsPrefixOf(InstEvents(c), Runs(c, Options(insts[c].type).hooks, k))

\* the component types whose setup, if they have one, returns
Sound == CompTypes \ {"CompThrow"}

\* C20: the events of each instance occur in the order beforeCreate, setup,
\* created, then render, beforeMount, patch with no old tree, isMounted set,
\* mounted, the registered hooks, then per later run render, beforeUpdate,
\* patch of the previous subtree, updated; mounting a component carries out
\* the whole first run; isMounted never goes back to false; after a run the
\* subTree is the tree rendered in it.
C20_LifecycleOrder ==
  /\ InOrder
  /\ \A c \in 1..Len(prevInsts) : prevInsts[c].isMounted => insts[c].isMounted
  /\ (phase = "mount" /\ lastVNode.type \in Sound) =>
       /\ err = ""
       /\ rootVNode.component \in 1..Len(insts)
       /\ insts[rootVNode.component].isMounted
       /\ InstEvents(rootVNode.component) =
            MountSeq(rootVNode.component, Options(lastVNode.type).hooks)
  /\ (phase \in {"mount", "patch", "flush"} /\ err = "") =>
       \A c \in 1..Len(insts) :
         (StepEvents(c) # <<>> /\ insts[c].isMounted /\ insts[c].render
            /\ ~Options(insts[c].type).isKeepAlive /\ \E i \in 1..Len(StepEvents(c)) : StepEvents(c)[i].ev = "render") =>
           /\ insts[c].subTree.type = Options(insts[c].type).tag
           /\ insts[c].subTree.text =
                ToString(<<Get(insts[c].props, "title"), insts[c].state>>)

\* the last step was a render that patched a mounted root component against
\* a vnode of the same component
PatchedSameComp ==
  /\ phase = "patch"
  /\ prevVNode.type \in CompTypes
  /\ lastVNode.type = prevVNode.type
  /\ prevVNode.component # 0

\* the same, and both vnodes have a props object
PatchedProps == PatchedSameComp /\ prevVNode.props.def /\ lastVNode.props.def

\* C12: when the parent patches a component node and hasPropsChanged is
\* false, patchComponent writes and deletes nothing on instance.props, no
\* job is queued and no render runs: the step leaves no event and changes
\* no instance.
C12_PropsPassivity ==
  (PatchedProps /\ ~hasPropsChanged(prevVNode.props.map, lastVNode.props.map)) =>
    /\ events = prevEvents
    /\ insts = prevInsts

\* a mounted component was patched by its parent with unchanged props
C12_Witness ==
  /\ PatchedProps
  /\ ~hasPropsChanged(prevVNode.props.map, lastVNode.props.map)
  /\ err = ""
  /\ rootVNode.component = prevVNode.component
  /\ insts[rootVNode.component].isMounted

\* the declared props a props object resolves to: the keys in the props
\* option of the component and the event handlers
Declared(type, props) ==
  IF ~props.def THEN NoMap
  ELSE [k \in {x \in DOMAIN props.map : x \in Options(type).props.keys \/ StartsWithOn(x)}
          |-> props.map[k]]

\* C18: patchComponent gives n2 the instance of n1; when the attributes
\* differ it leaves instance.props with exactly the declared props resolved
\* from n2.props; it changes neither state nor subTree nor isMounted.
C18_PatchInPlace ==
  PatchedSameComp =>
    /\ lastVNode.component = prevVNode.component
    /\ prevVNode.props # lastVNode.props =>
         insts[prevVNode.component].props = Declared(lastVNode.type, lastVNode.props)
    /\ insts[prevVNode.component].state = prevInsts[prevVNode.component].state
    /\ insts[prevVNode.component].subTree = prevInsts[prevVNode.component].subTree
    /\ insts[prevVNode.component].isMounted = prevInsts[prevVNode.component].isMounted

\* the same for vnodes that both have a props object
PatchInPlaceWithProps == PatchedProps => C18_PatchInPlace

\* the same when hasPropsChanged answered true
PatchInPlaceWhenNoticed ==
  (PatchedProps /\ hasPropsChanged(prevVNode.props.map, lastVNode.props.map)) =>
    C18_PatchInPlace

\* the subTree of the component of vnode v before the last step
SubTreeOf(v) == prevInsts[v.component].subTree

\* C16: unmount(v) of a Fragment unmounts every child; of a component marked
\* shouldKeepAlive moves the handle of its subtree into the storage
\* container of its KeepAlive, still in existence; of another component
\* unmounts the current subTree of the instance; of any other node removes
\* its handle from its parent.  Where nothing is kept alive no handle of v
\* has a parent afterwards.
C16_UnmountContract ==
  phase = "unmount" =>
    /\ err = ""
    /\ IsNull(rootVNode)
    /\ prevVNode.type = "Fragment" =>
         \A i \in 1..Len(prevVNode.list) : dom[prevVNode.list[i].el].parent = 0
    /\ prevVNode.type \in Tags \cup {"Text"} => dom[prevVNode.el].parent = 0
    /\ (prevVNode.type \in CompTypes /\ prevVNode.type # "KeepAlive") =>
         dom[SubTreeOf(prevVNode).el].parent = 0
    /\ prevVNode.type = "KeepAlive" =>
         /\ SubTreeOf(prevVNode).shouldKeepAlive
         /\ dom[SubTreeOf(SubTreeOf(prevVNode)).el].parent =
              insts[prevVNode.component].storage
         /\ OpsNamed("removeChild") = <<>>

\* a KeepAlive was unmounted while its child was in the container: the
\* subtree of the child went from the container into the storage container
C16_Witness ==
  /\ phase = "unmount"
  /\ err = ""
  /\ prevVNode.type = "KeepAlive"
  /\ prevDom[SubTreeOf(SubTreeOf(prevVNode)).el].parent = RootEl
  /\ dom[SubTreeOf(SubTreeOf(prevVNode)).el].parent = insts[prevVNode.component].storage
  /\ insts[prevVNode.component].storage # 0

\* instance k is a KeepAlive whose effect ran in the last step, with a child
\* of another type than before that was in its cache with an instance
Reactivated(k) ==
  /\ k \in 1..Len(prevInsts)
  /\ Options(insts[k].type).isKeepAlive
  /\ prevInsts[k].isMounted
  /\ \E i \in 1..Len(StepEvents(k)) : StepEvents(k)[i].ev = "render"
  /\ prevInsts[k].subTree.type # slot
  /\ slot \in DOMAIN prevInsts[k].cache
  /\ prevInsts[k].cache[slot] # 0

\* the handle of the subtree of the instance cached by k for the slot
KeptEl(k) == prevInsts[prevInsts[k].cache[slot]].subTree.el

\* C11: when a KeepAlive renders again a child type it has in its cache,
\* after a child of another type, mountComponent is not called (no instance
\* is created, no beforeCreate or setup runs); the new vnode's component is
\* the instance of the first mount with its state; and the handle of its
\* subtree goes from the storage container into the real container at the
\* anchor.
C11_Reactivate ==
  \A k \in 1..Len(prevInsts) :
    (phase = "flush" /\ Reactivated(k)) =>
      /\ err = ""
      /\ Len(insts) = Len(prevInsts)
      /\ \A i \in Len(prevEvents) + 1..Len(events) :
           events[i].ev \notin {"beforeCreate", "setup", "created", "patch:none"}
      /\ insts[k].subTree.type = slot
      /\ insts[k].subTree.component = prevInsts[k].cache[slot]
      /\ insts[insts[k].subTree.component].state =
           prevInsts[prevInsts[k].cache[slot]].state
      /\ insts[insts[k].subTree.component].isMounted
      /\ prevDom[KeptEl(k)].parent = insts[k].storage
      /\ dom[KeptEl(k)].parent = insts[k].container
      /\ \E i \in 1..Len(ops) :
           /\ ops[i].op = "insert"
           /\ ops[i].el = KeptEl(k)
           /\ ops[i].parent = insts[k].container
           /\ ops[i].anchor = insts[k].anchor

\* a KeepAlive showed A, then B, then A again, and the instance of A is back
C11_Witness ==
  /\ phase = "flush"
  /\ err = ""
  /\ \E k \in 1..Len(prevInsts) :
       /\ Reactivated(k)
       /\ insts[k].subTree.component = prevInsts[k].cache[slot]
       /\ dom[KeptEl(k)].parent = RootEl
       /\ prevDom[KeptEl(k)].parent = insts[k].storage

\* the order alone, without the demand that a mount carries out the first run
OrderOnly == InOrder /\ \A c \in 1..Len(prevInsts) : prevInsts[c].isMounted => insts[c].isMounted

(***************************************************************************)
(* Claims about render, read off SpecTop.                                  *)
(***************************************************************************)
\* the handles of a tree, a Fragment standing for those of its children
TreeHandles(v) == IF IsNull(v) THEN {} ELSE Range(Handles(<<v>>))

\* what the claim says of the last call of render
TopLevel ==
  /\ phase = "render" =>
       /\ rootVNode = lastVNode
       /\ IsNull(prevVNode) =>
            /\ TreeHandles(rootVNode) \cap (1..Len(prevDom)) = {}
            /\ \A h \in TreeHandles(rootVNode) : h # 0 /\ dom[h].parent = RootEl
  /\ phase = "clear" =>
       /\ IsNull(rootVNode)
       /\ \A h \in TreeHandles(prevVNode) : dom[h].parent = 0
       /\ dom[RootEl].kids = <<>>
       /\ IsNull(prevVNode) => ops = <<>>

\* C30: after a call of render, container._vnode is the argument of that
\* call; render(null) on a mounted tree leaves none of its handles in the
\* container; render(null) on an empty container calls no primitive; and a
\* render after render(null) mounts its vnode with handles of its own.
C30_TopLevelRender == TopLevel

\* the same for the calls of render that returned
TopLevelWhenReturned == err = "" => TopLevel

(***************************************************************************)
(* Claims about mounting before an anchor, read off SpecAnchor.            *)
(***************************************************************************)
\* the handles created for the node mounted last: its own, those of the
\* children of a Fragment, the subtree's for a component
MountedHandles ==
  IF lastVNode.type \in CompTypes
    THEN IF lastVNode.component = 0 THEN <<>>
         ELSE <<insts[lastVNode.component].subTree.el>>
  ELSE Handles(<<lastVNode>>)

\* the handles sit right before the anchor, in order
BeforeAnchor(hs, anchor) ==
  LET kids == dom[RootEl].kids
      at   == IndexOf(kids, anchor)
  IN /\ at > Len(hs)
     /\ SubSeq(kids, at - Len(hs), at - 1) = hs

\* C27: patch(null, n, container, anchor) with an anchor leaves every handle
\* created for n immediately before the anchor in the container, whatever
\* the kind of n.
C27_MountBeforeAnchor ==
  (phase = "anchored" /\ err = "") => BeforeAnchor(MountedHandles, rootVNode.el)

\* the same for elements and components only
ElementsBeforeAnchor ==
  (phase = "anchored" /\ err = "" /\ lastVNode.type \notin {"Text", "Fragment"}) =>
    BeforeAnchor(MountedHandles, rootVNode.el)

(***************************************************************************)
(* Claims about the effect of an unmounted component, read off SpecComp.   *)
(***************************************************************************)
\* instance c is held by the cache of a KeepAlive
Cached(c) ==
  \E k \in 1..Len(insts) : \E t \in DOMAIN insts[k].cache : insts[k].cache[t] = c

\* the effect of c went as far as its patch in the last step
Patched(c) ==
  \E i \in 1..Len(StepEvents(c)) : StepEvents(c)[i].ev \in {"patch:none", "patch:prev"}

\* C26: once render(null, container) has unmounted the root, a flush of the
\* scheduler runs no patch on behalf of an instance that is not kept alive,
\* whether its job was queued before the unmount or by a later change of
\* its state.
C26_NoUpdateAfterUnmount ==
  (phase = "flush" /\ IsNull(rootVNode)) => \A c \in 1..Len(insts) : Cached(c) \/ ~Patched(c)

(***************************************************************************)
(* Claims about the cache of KeepAlive, read off SpecComp.                 *)
(***************************************************************************)
\* the types KeepAlive k holds in its cache with their instance
CachedTypes(k) == {t \in DOMAIN insts[k].cache : insts[k].cache[t] # 0}

\* where the subtree of the instance cached by k for type t sits
PlaceOf(k, t) == dom[insts[insts[k].cache[t]].subTree.el].parent

\* no step evicts an entry of a cache or gives it another instance: every
\* mountComponent of a cached vnode writes its instance into the entry
CacheKept(k) ==
  \A t \in DOMAIN prevInsts[k].cache :
    /\ t \in DOMAIN insts[k].cache
    /\ prevInsts[k].cache[t] # 0 => insts[k].cache[t] = prevInsts[k].cache[t]

\* C29: under one KeepAlive, whatever the sequence of switches of its
\* child, mountComponent runs at most once for a cached type (no entry of
\* the cache is evicted or overwritten); and between steps the handle of
\* the subtree of each cached instance is in exactly one place, the real
\* container or the storage container, at most one of them in the real
\* container.
C29_CacheInvariant ==
  \A k \in 1..Len(insts) :
    Options(insts[k].type).isKeepAlive =>
      /\ k <= Len(prevInsts) => CacheKept(k)
      /\ \A t \in CachedTypes(k) :
           /\ ~IsNull(insts[insts[k].cache[t]].subTree)
           /\ PlaceOf(k, t) \in {insts[k].container, insts[k].storage}
           /\ insts[k].container # insts[k].storage
      /\ Cardinality({t \in CachedTypes(k) : PlaceOf(k, t) = insts[k].container}) <= 1

\* a KeepAlive was switched to a second child and back: two types are
\* cached, the first is back in the real container, the other is stored
C29_Witness ==
  /\ phase = "flush"
  /\ err = ""
  /\ \E k \in 1..Len(insts) :
       /\ Options(insts[k].type).isKeepAlive
       /\ CachedTypes(k) = SlotTypes
       /\ Len(insts) = k + 2
       /\ insts[k].subTree.component = k + 1
       /\ PlaceOf(k, insts[k + 1].type) = insts[k].container
       /\ PlaceOf(k, insts[k + 2].type) = insts[k].storage

(***************************************************************************)
(* Claims about the render context, read off SpecCtx.                      *)
(***************************************************************************)
\* the store a name resolves to: local state, then props, then setupState
SourceOf(t, k) ==
  IF InStore(t.state, k) THEN "state"
  ELSE IF k \in DOMAIN t.props.map THEN "props"
  ELSE IF InStore(t.setupState, k) THEN "setupState"
  ELSE "none"

\* the last access read the name from the store it resolves to
ReadResolved ==
  LET c == fnRes.val
      src == SourceOf(c.before, c.k)
  IN /\ fnArg = c.before
     /\ src = "state" => c.ret = c.before.state.map[c.k] /\ c.diag = ""
     /\ src = "props" => c.ret = c.before.props.map[c.k] /\ c.diag = ""
     /\ src = "setupState" => c.ret = c.before.setupState.map[c.k] /\ c.diag = ""
     /\ src = "none" => c.ret = "undefined" /\ c.diag # ""

\* the last access wrote to the store the name resolves to, and to no other;
\* val(v) says which values the store may hold at the name afterwards
WriteResolved(val(_)) ==
  LET c == fnRes.val
      src == SourceOf(c.before, c.k)
  IN /\ src = "props" => fnArg = c.before /\ c.diag # ""
     /\ src = "state" =>
          /\ fnArg.props = c.before.props /\ fnArg.setupState = c.before.setupState
          /\ \E x \in val(c.v) : fnArg.state = [c.before.state EXCEPT !.map[c.k] = x]
     /\ src = "setupState" =>
          /\ fnArg.props = c.before.props /\ fnArg.state = c.before.state
          /\ \E x \in val(c.v) : fnArg.setupState = [c.before.setupState EXCEPT !.map[c.k] = x]

\* the value written, and any value
Written(v) == {v}
AnyValue(v) == {v, "renderContext", "s", "p", "u"}

\* C23: a read of a name through the render context gives state[k] when k
\* is in the local state, else props[k] when k is in the props, else
\* setupState[k] when it is there, else undefined with a diagnostic and no
\* exception; a write to a name found in the props and not in the state
\* leaves props, state and setupState as they were; a write to a name in
\* the state or in setupState puts the value into that store and changes no
\* other.
C23_RenderContext ==
  (fnRes.done /\ fnRes.val.k # "$slots") =>
    /\ fnRes.val.op = "get" => ReadResolved
    /\ fnRes.val.op = "set" => WriteResolved(Written)

\* the same, whatever the write stores at the name
RenderContextButValue ==
  (fnRes.done /\ fnRes.val.k # "$slots") =>
    /\ fnRes.val.op = "get" => ReadResolved
    /\ fnRes.val.op = "set" => WriteResolved(AnyValue)

(***************************************************************************)
(* Claims about include and exclude of KeepAlive, read off SpecFilter.     *)
(***************************************************************************)
\* the vnode KeepAlive k rendered last is the child as the slot gave it:
\* not in the cache, no mark, no KeepAlive attached
Uncached(k) ==
  /\ insts[k].subTree.type \notin DOMAIN insts[k].cache
  /\ ~insts[k].subTree.shouldKeepAlive
  /\ ~insts[k].subTree.keptAlive
  /\ insts[k].subTree.keepAliveInstance = 0

\* the instance of the child k rendered last was created by this step
FreshChild(k) ==
  /\ insts[k].subTree.component > Len(prevInsts)
  /\ insts[insts[k].subTree.component].isMounted

\* the child k rendered before this step has left the platform tree
ChildGone(k) ==
  (k <= Len(prevInsts) /\ ~IsNull(prevInsts[k].subTree)
     /\ prevInsts[k].subTree.type # insts[k].subTree.type) =>
    dom[prevInsts[prevInsts[k].subTree.component].subTree.el].parent = 0

\* KeepAlive k rendered in the last step
KaRendered(k) ==
  /\ err = ""
  /\ phase \in {"mount", "flush"}
  /\ k \in 1..Len(insts)
  /\ Options(insts[k].type).isKeepAlive
  /\ \E i \in 1..Len(StepEvents(k)) : StepEvents(k)[i].ev = "render"
  /\ ~IsNull(insts[k].subTree)

\* what the claim says of a child that is to go past the cache
PastCache(k) ==
  /\ Uncached(k)
  /\ (k > Len(prevInsts) \/ prevInsts[k].subTree.type # insts[k].subTree.type) =>
       FreshChild(k)

\* C22: a child of KeepAlive whose type has no name, or whose name include
\* does not match, or whose name exclude matches, goes past the cache: it
\* is rendered as the slot gave it (not put into the cache, not marked
\* shouldKeepAlive or keptAlive, no KeepAlive attached), each time it comes
\* in a fresh instance is mounted, and when it is replaced it is unmounted.
C22_KeepAliveFilter ==
  \A k \in 1..Len(insts) :
    KaRendered(k) =>
      /\ kaBypassUnnamed(insts[k].props, NameOf(insts[k].subTree.type)) => PastCache(k)
      /\ (k <= Len(prevInsts) /\ ~IsNull(prevInsts[k].subTree)
            /\ kaBypassUnnamed(insts[k].props, NameOf(prevInsts[k].subTree.type)))
           => ChildGone(k)

\* the same of the children that have a name
NamedFilter ==
  \A k \in 1..Len(insts) :
    KaRendered(k) =>
      /\ kaBypass(insts[k].props, NameOf(insts[k].subTree.type)) => PastCache(k)
      /\ (k <= Len(prevInsts) /\ ~IsNull(prevInsts[k].subTree)
            /\ kaBypass(insts[k].props, NameOf(prevInsts[k].subTree.type)))
           => ChildGone(k)

\* a named child that went past the cache has come in a second time
NamedFilterSeen ==
  \E k \in 1..Len(insts) :
    /\ KaRendered(k)
    /\ kaBypass(insts[k].props, NameOf(insts[k].subTree.type))
    /\ k <= Len(prevInsts)
    /\ Len(insts) >= k + 3

(***************************************************************************)
(* Claims about Teleport, read off SpecTeleport.                           *)
(***************************************************************************)
\* the destination a Teleport vnode names
TargetOf(v) == querySelector([dom |-> dom], v.props.map["to"])

\* the last render updated a Teleport and returned
TpUpdated ==
  /\ phase = "update"
  /\ err = ""
  /\ prevVNode.type = "Teleport"
  /\ rootVNode.type = "Teleport"

\* the children of seq among the members of set, in the order of seq
Among(seq, set) == SelectSeq(seq, LAMBDA h : h \in set)

\* C21: when a Teleport is updated with another `to`, then after process
\* returns the handles of the children of n2 are in the new destination in
\* the order of the children, and a child that is in the old and in the new
\* children has the handle it had.
C21_DestinationChange ==
  (TpUpdated /\ prevVNode.props.map["to"] # rootVNode.props.map["to"]) =>
    /\ \A i \in 1..Len(rootVNode.list) :
         /\ rootVNode.list[i].el # 0
         /\ dom[rootVNode.list[i].el].parent = TargetOf(rootVNode)
    /\ Among(dom[TargetOf(rootVNode)].kids, Range(Handles(rootVNode.list)))
         = Handles(rootVNode.list)
    /\ \A i \in 1..Len(rootVNode.list), k \in 1..Len(prevVNode.list) :
         (rootVNode.list[i].key = prevVNode.list[k].key
            /\ rootVNode.list[i].type = prevVNode.list[k].type)
           => rootVNode.list[i].el = prevVNode.list[k].el

\* a Teleport went to the other destination with its children reordered
\* and one more child
C21_Witness ==
  /\ TpUpdated
  /\ prevVNode.props.map["to"] # rootVNode.props.map["to"]
  /\ Len(rootVNode.list) = 3
  /\ Len(prevVNode.list) = 2
  /\ dom[TargetOf(rootVNode)].kids = Handles(rootVNode.list)
  /\ dom[TargetOf(prevVNode)].kids = <<>>

\* C28: after a Teleport was mounted and updated any number of times, every
\* handle of its current children is in the destination `to` names now, and
\* none is in the container given to render; so is a child that first came
\* in an update.
C28_ChildrenInDestination ==
  (phase \in {"mount", "update"} /\ err = "" /\ rootVNode.type = "Teleport") =>
    \A i \in 1..Len(rootVNode.list) :
      /\ rootVNode.list[i].el # 0
      /\ dom[rootVNode.list[i].el].parent = TargetOf(rootVNode)
      /\ dom[rootVNode.list[i].el].parent # RootEl

\* the same right after the mount
MountedInDestination ==
  (phase = "mount" /\ err = "" /\ rootVNode.type = "Teleport") =>
    \A i \in 1..Len(rootVNode.list) :
      dom[rootVNode.list[i].el].parent = TargetOf(rootVNode)

\* no child that has a handle has it in the container given to render
NoneInContainer ==
  (phase \in {"mount", "update"} /\ err = "" /\ rootVNode.type = "Teleport") =>
    \A i \in 1..Len(rootVNode.list) :
      rootVNode.list[i].el # 0 => dom[rootVNode.list[i].el].parent # RootEl

====
